---------------------------- MODULE Spec2Model ----------------------------
(***************************************************************************)
(* A model of the DEFLATE block emitter of Beast's deflate_stream          *)
(* (include/beast/core/detail/zlib/impl/deflate_stream.ipp): the bit sink, *)
(* the Huffman tree builder and _tr_flush_block; of the handler_ptr        *)
(* container (include/beast/core/handler_ptr.hpp); and of read() over the  *)
(* new parser (test/http/new_parser.cpp).                                  *)
(***************************************************************************)
EXTENDS Integers, Sequences, FiniteSets, TLC

VARIABLES
    bi_buf,     \* 16-bit bit accumulator
    bi_valid,   \* number of valid bits in bi_buf
    pending,    \* pending output: the bytes written by put_byte, in order
    sent,       \* history: every bit handed to the bit sink, in call order
    nsend,      \* number of bit-sink operations performed so far
    t_desc,     \* tree builder alone: the descriptor in use ("l", "d", "bl")
    t_freq,     \* tree builder alone: the frequencies given so far
    t_out,      \* tree builder alone: what build_tree left, or NoTree
    level_,      \* compression level
    strategy_,   \* compression strategy
    data_type,  \* Z_BINARY, Z_TEXT or Z_UNKNOWN
    lit_buf,    \* d_buf_ and l_buf_ up to last_lit_: pairs <<dist, lc>>
    dyn_ltree_,  \* frequencies (fc) of the literal and length tree
    dyn_dtree_,  \* frequencies (fc) of the distance tree
    bl_tree_,    \* frequencies (fc) of the bit length tree
    opt_len_,    \* bit length of the block with the optimal trees
    static_len_, \* bit length of the block with the static trees
    matches_,    \* number of matches in the block
    blk,        \* history: the last block emitted
    nblocks,    \* number of blocks emitted so far
    s_tree,     \* send_tree alone: the ct_data array (dl) and its max_code
    s_bl,       \* send_tree alone: bl_tree_ as build_bl_tree left it
    s_out,      \* send_tree alone: the bit sink after send_tree
    p_,         \* handler_ptr: p_ of each container, 0 for nullptr
    next_,      \* handler_ptr: next_ of each container, 0 for nullptr
    prev_,      \* handler_ptr: prev_ of each container, 0 for nullptr
    live,       \* handler_ptr: the containers constructed and not yet destroyed
    made,       \* handler_ptr: number of managed objects allocated so far
    destroys,   \* history: how often D::destroy() ran on each managed object
    op,         \* history: the last handler_ptr operation, and how many there were
    stream,     \* read(): the bytes the stream has not delivered yet
    buffer,     \* read(): the readable bytes of the parse_buffer (data())
    skip_,      \* parser: skip_
    f_,         \* parser: the flags set in f_
    length_,    \* parser: length_
    body_,      \* reader: body_ (the message body)
    len_,       \* reader: len_
    ec,         \* read(): the error code
    pc          \* read(): where the call stands

bitvars == <<bi_buf, bi_valid, pending, sent, nsend>>
treevars == <<t_desc, t_freq, t_out>>
blockvars == <<level_, strategy_, data_type, lit_buf, dyn_ltree_, dyn_dtree_, bl_tree_,
               opt_len_, static_len_, matches_, blk, nblocks>>
sendvars == <<s_tree, s_bl, s_out>>
ptrvars == <<p_, next_, prev_, live, made, destroys, op>>
readvars == <<stream, buffer, skip_, f_, length_, body_, len_, ec, pc>>
othervars == <<sendvars, ptrvars, readvars>>
vars == <<bi_buf, bi_valid, pending, sent, nsend, t_desc, t_freq, t_out,
          level_, strategy_, data_type, lit_buf, dyn_ltree_, dyn_dtree_, bl_tree_,
          opt_len_, static_len_, matches_, blk, nblocks, s_tree, s_bl, s_out,
          p_, next_, prev_, live, made, destroys, op,
          stream, buffer, skip_, f_, length_, body_, len_, ec, pc>>

(***************************************************************************)
(* Bounds of the model.                                                    *)
(***************************************************************************)
\* Number of bit-sink operations explored by the bit-sink specification.
MaxSinkOps == 3
\* Tree builder alone: the first MaxBranch frequencies are chosen freely, the
\* following ones continue the Fibonacci-like chain, MaxSyms in all.
MaxBranch == 5
MaxSyms == 18
\* The block emitter: lit_bufsize_ is LitBufSize, a block holds at most
\* MaxMatches matches, a run emits at most MaxBlocks blocks, and the input block
\* of a flush is empty or MaxStored bytes long.
LitBufSize == 16
MaxMatches == 1
MaxBlocks == 2
MaxStored == 12
\* _tr_stored_block alone: the blocks sent at every fill of the accumulator
\* are up to MaxCopy bytes long.
MaxCopy == 258
\* detect_data_type alone: up to MaxMarked of the bytes that bound its ranges
\* have a nonzero frequency.
MaxMarked == 3

\* send_tree alone: number of runs of equal code lengths in the array sent.
MaxRuns == 3

\* handler_ptr: places of memory a container can be constructed in, and
\* managed objects allocated in a run.
MaxPtrs == 3
MaxObjects == 2
\* handler_ptr: number of operations in a run.
MaxPtrOps == 6
\* compress_block: lit_bufsize_ of the stream whose literal buffer is
\* smallest (1 << (memLevel + 6) with memLevel 1).
MinLitBufSize == 128
\* read(): largest number of body bytes in the stream.
MaxBody == 3
\* read(): what remain() returns when the length of the body is not known.
NoLength == 65536

(***************************************************************************)
(* Fixed-width integer helpers.                                            *)
(***************************************************************************)
Buf_size == 16

Pow2(n) == 2 ^ n

\* Bit i of x.
BitAt(x, i) == (x \div Pow2(i)) % 2

\* (std::uint16_t)x
U16(x) == x % 65536

\* (std::uint16_t)(x << k) for a 16-bit x and 0 <= k <= 16, computed without
\* leaving the 32-bit integers: the bits shifted past bit 15 are dropped.
Shl16(x, k) == (x % Pow2(Buf_size - k)) * Pow2(k)

\* The same function, with its values enumerated once.
Eager(f) == f @@ <<>>

\* x; then(x): the value x is computed first, once, and then handed on, as a
\* statement of the source completes before the next one starts.
With(x, then(_)) == IF x # x THEN x ELSE then(x)

\* for (n = lo; n <= hi; n++) acc = body(acc, n), for a record acc: the
\* iterations run in increasing order of n.  The range is halved, and the
\* left half is evaluated before the right one starts, to keep the
\* evaluation shallow.
RECURSIVE ForRange(_, _, _, _)
ForRange(body(_, _), acc, lo, hi) ==
    IF lo > hi THEN acc
    ELSE IF lo = hi THEN body(acc, lo)
    ELSE LET mid == (lo + hi) \div 2
             left == ForRange(body, acc, lo, mid)
         IN  IF DOMAIN left = {} THEN left
             ELSE ForRange(body, left, mid + 1, hi)

\* Bitwise or of two 16-bit values.
RECURSIVE OrFrom(_, _, _)
OrFrom(a, b, i) ==
    IF i = Buf_size THEN 0
    ELSE (IF BitAt(a, i) = 1 \/ BitAt(b, i) = 1 THEN Pow2(i) ELSE 0)
         + OrFrom(a, b, i + 1)

Or16(a, b) == OrFrom(a, b, 0)

\* The low n bits of x, least significant first.
LowBits(x, n) == [i \in 1..n |-> BitAt(x, i - 1)]

RECURSIVE BytesToBits(_)
BytesToBits(bytes) ==
    IF bytes = <<>> THEN <<>>
    ELSE LowBits(Head(bytes), 8) \o BytesToBits(Tail(bytes))

(***************************************************************************)
(* The bit sink.  A sink is a record [bi_buf, bi_valid, pending].          *)
(***************************************************************************)
put_byte(s, c) == [s EXCEPT !.pending = Append(@, c)]

put_short(s, w) ==
    put_byte(put_byte(s, w % 256), U16(w) \div 256)

\* send_bits with the spilled value's remainder shifted one bit too far.
send_bits_shift(s, value, length) ==
    IF s.bi_valid > Buf_size - length
    THEN LET b1 == Or16(s.bi_buf, Shl16(U16(value), s.bi_valid))
             s1 == put_short([s EXCEPT !.bi_buf = b1], b1)
         IN  [s1 EXCEPT !.bi_buf = U16(value) \div Pow2(Buf_size - s.bi_valid + 1),
                        !.bi_valid = s.bi_valid + length - Buf_size]
    ELSE [s EXCEPT !.bi_buf = Or16(@, Shl16(U16(value), s.bi_valid)),
                   !.bi_valid = @ + length]

\* send_bits that spills one bit too late.
send_bits_late(s, value, length) ==
    IF s.bi_valid > Buf_size - length + 1
    THEN LET b1 == Or16(s.bi_buf, Shl16(U16(value), s.bi_valid))
             s1 == put_short([s EXCEPT !.bi_buf = b1], b1)
         IN  [s1 EXCEPT !.bi_buf = U16(value) \div Pow2(Buf_size - s.bi_valid),
                        !.bi_valid = s.bi_valid + length - Buf_size]
    ELSE [s EXCEPT !.bi_buf = Or16(@, Shl16(U16(value), s.bi_valid)),
                   !.bi_valid = @ + length]

\* The IN assertion of send_bits: length <= 16 and value fits in length bits,
\* for a length of at least one bit.
send_bits_in(value, length) ==
    length \in 1..Buf_size /\ value \in 0..(Pow2(length) - 1)

\* send_bits(s, value, length).  A call that breaks the IN assertion leaves
\* the field bad in the sink, which every later sink inherits.
send_bits(s, value, length) ==
    LET out == IF s.bi_valid > Buf_size - length
               THEN LET b1 == Or16(s.bi_buf, Shl16(U16(value), s.bi_valid))
                        s1 == put_short([s EXCEPT !.bi_buf = b1], b1)
                    IN  [s1 EXCEPT !.bi_buf = U16(value) \div Pow2(Buf_size - s.bi_valid),
                                   !.bi_valid = s.bi_valid + length - Buf_size]
               ELSE [s EXCEPT !.bi_buf = Or16(@, Shl16(U16(value), s.bi_valid)),
                              !.bi_valid = @ + length]
    IN  IF send_bits_in(value, length) THEN out ELSE Eager(out @@ [bad |-> TRUE])

\* bi_flush without the case of a full accumulator.
bi_flush_byte(s) ==
    IF s.bi_valid >= 8
    THEN [put_byte(s, s.bi_buf % 256) EXCEPT !.bi_buf = s.bi_buf \div 256,
                                             !.bi_valid = s.bi_valid - 8]
    ELSE s

bi_flush(s) ==
    IF s.bi_valid = 16
    THEN [put_short(s, s.bi_buf) EXCEPT !.bi_buf = 0, !.bi_valid = 0]
    ELSE IF s.bi_valid >= 8
    THEN [put_byte(s, s.bi_buf % 256) EXCEPT !.bi_buf = s.bi_buf \div 256,
                                             !.bi_valid = s.bi_valid - 8]
    ELSE s

\* bi_windup that writes one byte whatever the number of bits.
bi_windup_byte(s) ==
    LET s1 == IF s.bi_valid > 0 THEN put_byte(s, s.bi_buf % 256) ELSE s
    IN  [s1 EXCEPT !.bi_buf = 0, !.bi_valid = 0]

\* bi_windup that writes the bits out but leaves them in the accumulator.
bi_windup_keep(s) ==
    IF s.bi_valid > 8 THEN put_short(s, s.bi_buf)
    ELSE IF s.bi_valid > 0 THEN put_byte(s, s.bi_buf % 256)
    ELSE s

bi_windup(s) ==
    LET s1 == IF s.bi_valid > 8 THEN put_short(s, s.bi_buf)
              ELSE IF s.bi_valid > 0 THEN put_byte(s, s.bi_buf % 256)
              ELSE s
    IN  [s1 EXCEPT !.bi_buf = 0, !.bi_valid = 0]

(***************************************************************************)
(* Static tables (RFC 1951); the repository keeps them in lut_.            *)
(***************************************************************************)
lCodes == 286
dCodes == 30
blCodes == 19
literals == 256
lengthCodes == 29
maxBits == 15
maxBlBits == 7
END_BLOCK == 256
REP_3_6 == 16
REPZ_3_10 == 17
REPZ_11_138 == 18

\* Indexed from 0 in the source: entry i is at position i + 1 here.
extra_lbits ==
    <<0,0,0,0,0,0,0,0,1,1,1,1,2,2,2,2,3,3,3,3,4,4,4,4,5,5,5,5,0>>

extra_dbits ==
    <<0,0,0,0,1,1,2,2,3,3,4,4,5,5,6,6,7,7,8,8,9,9,10,10,11,11,12,12,13,13>>

extra_blbits == <<0,0,0,0,0,0,0,0,0,0,0,0,0,0,0,0,2,3,7>>

bl_order == <<16,17,18,0,8,7,9,6,10,5,11,4,12,3,13,2,14,1,15>>

\* Reverse the first len bits of code.
RECURSIVE bi_reverse_loop(_, _, _)
bi_reverse_loop(code, len, res) ==
    LET res1 == (res + (IF code % 2 = 1 /\ res % 2 = 0 THEN 1 ELSE 0)) * 2
        code1 == code \div 2
    IN  IF len - 1 > 0 THEN bi_reverse_loop(code1, len - 1, res1)
        ELSE res1 \div 2

\* bi_reverse that leaves the code as it is.
bi_reverse_none(code, len) == code

bi_reverse(code, len) == bi_reverse_loop(code, len, 0)

\* Code lengths of the static literal/length tree (288 entries).
static_ltree_len ==
    [n \in 0..(lCodes + 1) |->
        IF n <= 143 THEN 8 ELSE IF n <= 255 THEN 9 ELSE IF n <= 279 THEN 7 ELSE 8]

\* Codes of the static literal/length tree, bit-reversed as stored.
static_ltree_code ==
    [n \in 0..(lCodes + 1) |->
        IF n <= 143 THEN bi_reverse(48 + n, 8)
        ELSE IF n <= 255 THEN bi_reverse(400 + (n - 144), 9)
        ELSE IF n <= 279 THEN bi_reverse(n - 256, 7)
        ELSE bi_reverse(192 + (n - 280), 8)]

\* The static distance tree: all codes are 5 bits.
static_dtree_len == [n \in 0..(dCodes - 1) |-> 5]

static_dtree_code == [n \in 0..(dCodes - 1) |-> bi_reverse(n, 5)]

\* First normalized length of each length code (length - minMatch).
RECURSIVE base_length_from(_, _)
base_length_from(code, length) ==
    IF code = lengthCodes - 1 THEN <<0>>
    ELSE <<length>> \o base_length_from(code + 1, length + Pow2(extra_lbits[code + 1]))

base_length == base_length_from(0, 0)

\* First normalized distance of each distance code (distance - 1).
RECURSIVE base_dist_from(_, _)
base_dist_from(code, dist) ==
    IF code = dCodes THEN <<>>
    ELSE <<dist>> \o base_dist_from(code + 1, dist + Pow2(extra_dbits[code + 1]))

base_dist == base_dist_from(0, 0)

\* length_code[lc]: the length code of a normalized match length lc in 0..255.
length_code ==
    [lc \in 0..255 |->
        IF lc = 255 THEN lengthCodes - 1
        ELSE CHOOSE c \in 0..(lengthCodes - 2) :
                /\ base_length[c + 1] <= lc
                /\ lc < base_length[c + 1] + Pow2(extra_lbits[c + 1])]

\* d_code(dist): the distance code of a normalized distance in 0..32767.
d_code(dist) ==
    CHOOSE c \in 0..(dCodes - 1) :
        /\ base_dist[c + 1] <= dist
        /\ dist < base_dist[c + 1] + Pow2(extra_dbits[c + 1])

\* The three tree descriptors: static_tree, extra_bits, extra_base, elems,
\* max_length.
l_desc == [name |-> "l", elems |-> lCodes, max_length |-> maxBits,
           extra_base |-> literals + 1, has_stree |-> TRUE]

d_desc == [name |-> "d", elems |-> dCodes, max_length |-> maxBits,
           extra_base |-> 0, has_stree |-> TRUE]

bl_desc == [name |-> "bl", elems |-> blCodes, max_length |-> maxBlBits,
            extra_base |-> 0, has_stree |-> FALSE]

\* desc->stat_desc->extra_bits[i]
desc_extra(desc, i) ==
    IF desc.name = "l" THEN extra_lbits[i + 1]
    ELSE IF desc.name = "d" THEN extra_dbits[i + 1]
    ELSE extra_blbits[i + 1]

\* desc->stat_desc->static_tree[n].dl
desc_stree_len(desc, n) ==
    IF desc.name = "l" THEN static_ltree_len[n] ELSE static_dtree_len[n]

(***************************************************************************)
(* The Huffman builder.  A tree under construction is a record             *)
(*   fc, dl  : the ct_data fields of the nodes 0 .. 2*elems                *)
(*   depth   : depth_ of the nodes                                         *)
(*   heap    : heap_[1 .. heap_len], the priority queue                    *)
(*   sorted  : heap_[heap_max .. HEAP_SIZE-1], the nodes by frequency      *)
(*   opt_len, static_len, max_code, bl_count                               *)
(*   bad     : an index left its array (undefined behaviour in the code)   *)
(***************************************************************************)
Dec16(x) == (x + 65535) % 65536

\* smaller without the depth as tie breaker.
smaller_freq(t, n, m) == t.fc[n] <= t.fc[m]

smaller(t, n, m) ==
    \/ t.fc[n] < t.fc[m]
    \/ (t.fc[n] = t.fc[m] /\ t.depth[n] <= t.depth[m])

RECURSIVE pqdownheap_loop(_, _, _, _, _)
pqdownheap_loop(t, heap, v, k, j) ==
    IF j > Len(heap) THEN [heap EXCEPT ![k] = v]
    ELSE With(IF j < Len(heap) /\ smaller(t, heap[j + 1], heap[j])
              THEN j + 1 ELSE j, LAMBDA j1 :
              IF smaller(t, v, heap[j1]) THEN [heap EXCEPT ![k] = v]
              ELSE pqdownheap_loop(t, [heap EXCEPT ![k] = heap[j1]], v, j1, 2 * j1))

\* pqdownheap(s, tree, k): the heap after moving node heap[k] down.
pqdownheap(t, k) ==
    [t EXCEPT !.heap = pqdownheap_loop(t, t.heap, t.heap[k], k, 2 * k)]

\* gen_bitlen, first pass: the lengths of the nodes sorted[h..], overflow
\* counted.
RECURSIVE gen_bitlen_pass1(_, _, _, _)
\* The first pass with the overflow test off by one: a length of
\* max_length + 1 passes.
gen_bitlen_pass1_loose(t, desc, h, overflow) ==
    IF h > Len(t.sorted) THEN [t |-> t, overflow |-> overflow]
    ELSE
      LET n == t.sorted[h]
          b0 == t.dl[t.dl[n]] + 1
          over == b0 > desc.max_length + 1
          bits == IF over THEN desc.max_length ELSE b0
          t1 == [t EXCEPT !.dl[n] = bits]
          t2 == IF n > t.max_code THEN t1
                ELSE [t1 EXCEPT !.bl_count[bits] = @ + 1]
      IN  gen_bitlen_pass1(t2, desc, h + 1, IF over THEN overflow + 1 ELSE overflow)

gen_bitlen_pass1(t, desc, h, overflow) ==
    IF h > Len(t.sorted) THEN [t |-> t, overflow |-> overflow]
    ELSE
      LET n == t.sorted[h]
          b0 == t.dl[t.dl[n]] + 1
          over == b0 > desc.max_length
          bits == IF over THEN desc.max_length ELSE b0
          t1 == [t EXCEPT !.dl[n] = bits]
          xbits == IF n >= desc.extra_base
                   THEN desc_extra(desc, n - desc.extra_base) ELSE 0
          f == t.fc[n]
          t2 == IF n > t.max_code THEN t1
                ELSE [t1 EXCEPT
                        !.bl_count[bits] = @ + 1,
                        !.opt_len = @ + f * (bits + xbits),
                        !.static_len = IF desc.has_stree
                                       THEN @ + f * (desc_stree_len(desc, n) + xbits)
                                       ELSE @]
      IN  gen_bitlen_pass1(t2, desc, h + 1, IF over THEN overflow + 1 ELSE overflow)

\* while (s->bl_count_[bits] == 0) bits--;  -1 when the search leaves the array.
RECURSIVE gen_bitlen_find(_, _)
gen_bitlen_find(bl_count, bits) ==
    IF bits < 0 THEN -1
    ELSE IF bl_count[bits] = 0 THEN gen_bitlen_find(bl_count, bits - 1)
    ELSE bits

\* The do-while loop that moves leaves until overflow <= 0.
RECURSIVE gen_bitlen_redistribute(_, _, _)
\* The redistribution step that moves the overflow item without its brother.
gen_bitlen_redistribute_one(t, desc, overflow) ==
    LET bits == gen_bitlen_find(t.bl_count, desc.max_length - 1)
    IN  IF bits < 0 THEN [t EXCEPT !.bad = TRUE]
        ELSE
          LET c1 == [t.bl_count EXCEPT ![bits] = Dec16(@)]
              c2 == [c1 EXCEPT ![bits + 1] = U16(@ + 1)]
              c3 == [c2 EXCEPT ![desc.max_length] = Dec16(@)]
              t1 == [t EXCEPT !.bl_count = c3]
          IN  IF overflow - 2 > 0
              THEN gen_bitlen_redistribute(t1, desc, overflow - 2)
              ELSE t1

\* The redistribution step that leaves bl_count[max_length] as it is.
gen_bitlen_redistribute_keep(t, desc, overflow) ==
    LET bits == gen_bitlen_find(t.bl_count, desc.max_length - 1)
    IN  IF bits < 0 THEN [t EXCEPT !.bad = TRUE]
        ELSE
          LET c1 == [t.bl_count EXCEPT ![bits] = Dec16(@)]
              c2 == [c1 EXCEPT ![bits + 1] = U16(@ + 2)]
              t1 == [t EXCEPT !.bl_count = c2]
          IN  IF overflow - 2 > 0
              THEN gen_bitlen_redistribute(t1, desc, overflow - 2)
              ELSE t1

\* redist keeps what the loop has done: the number of its passes, the
\* smallest index at which the search for a nonzero bl_count stopped, and
\* whether bl_count[max_length] was zero when it was decremented.
gen_bitlen_redistribute(t, desc, overflow) ==
    LET bits == gen_bitlen_find(t.bl_count, desc.max_length - 1)
    IN  IF bits < 0 THEN [t EXCEPT !.bad = TRUE, !.redist.min_bits = -1]
        ELSE
          LET c1 == [t.bl_count EXCEPT ![bits] = Dec16(@)]
              c2 == [c1 EXCEPT ![bits + 1] = U16(@ + 2)]
              c3 == [c2 EXCEPT ![desc.max_length] = Dec16(@)]
              t1 == [t EXCEPT !.bl_count = c3,
                              !.redist.steps = @ + 1,
                              !.redist.min_bits = IF bits < @ THEN bits ELSE @,
                              !.redist.starved = @ \/ c2[desc.max_length] = 0]
          IN  IF overflow - 2 > 0
              THEN gen_bitlen_redistribute(t1, desc, overflow - 2)
              ELSE t1

\* The recomputation of all lengths: n leaves are still to get length bits,
\* h is the heap index last read (as an index of sorted).
RECURSIVE gen_bitlen_recompute(_, _, _, _)
gen_bitlen_recompute(t, bits, n, h) ==
    IF bits = 0 THEN t
    ELSE IF n = 0
    THEN IF bits = 1 THEN t
         ELSE gen_bitlen_recompute(t, bits - 1, t.bl_count[bits - 1], h)
    ELSE IF h - 1 < 1 THEN [t EXCEPT !.bad = TRUE]
    ELSE
      LET m == t.sorted[h - 1]
      IN  IF m > t.max_code THEN gen_bitlen_recompute(t, bits, n, h - 1)
          ELSE IF t.dl[m] # bits
          THEN gen_bitlen_recompute(
                  [t EXCEPT !.opt_len = @ + (bits - t.dl[m]) * t.fc[m],
                            !.dl[m] = bits],
                  bits, n - 1, h - 1)
          ELSE gen_bitlen_recompute(t, bits, n - 1, h - 1)

\* The number of leaves counted in bl_count.
RECURSIVE leaves(_, _)
leaves(bl_count, bits) ==
    IF bits > maxBits THEN 0 ELSE bl_count[bits] + leaves(bl_count, bits + 1)

gen_bitlen(t, desc) ==
    With(gen_bitlen_pass1([t EXCEPT !.bl_count = Eager([b \in 0..maxBits |-> 0]),
                                    !.dl[t.sorted[1]] = 0], desc, 2, 0), LAMBDA p1 :
         IF p1.overflow = 0 THEN p1.t
         ELSE With(gen_bitlen_redistribute(
                       [p1.t EXCEPT !.overflowed = TRUE,
                                    !.redist.leaves_in = leaves(p1.t.bl_count, 0)],
                       desc, p1.overflow), LAMBDA t1 :
                   IF t1.bad THEN t1
                   ELSE gen_bitlen_recompute(
                            [t1 EXCEPT !.redist.leaves_out = leaves(t1.bl_count, 0)],
                            desc.max_length, t1.bl_count[desc.max_length],
                            Len(t1.sorted) + 1)))

\* next_code[1..maxBits] of gen_codes.
RECURSIVE gen_codes_next(_, _, _)
gen_codes_next(bl_count, bits, code) ==
    IF bits > maxBits THEN <<>>
    ELSE LET c == U16((code + bl_count[bits - 1]) * 2)
         IN  <<c>> \o gen_codes_next(bl_count, bits + 1, c)

\* One iteration of the loop of gen_codes, for symbol n; the accumulator holds
\* the tree and next_code.
gen_codes_step(a, n) ==
    LET len == a.t.dl[n]
    IN  IF len = 0 THEN a
        ELSE [t |-> [a.t EXCEPT !.fc[n] = bi_reverse(a.next_code[len], len)],
              next_code |-> [a.next_code EXCEPT ![len] = U16(@ + 1)]]

\* Assert (code + bl_count[maxBits]-1 == (1<<maxBits)-1, "inconsistent bit counts")
gen_codes_consistent(bl_count) ==
    LET next_code == gen_codes_next(bl_count, 1, 0)
    IN  next_code[maxBits] + bl_count[maxBits] - 1 = Pow2(maxBits) - 1

gen_codes(t) ==
    LET a == ForRange(gen_codes_step,
                      [t |-> t, next_code |-> gen_codes_next(t.bl_count, 1, 0)],
                      0, t.max_code)
    IN  [a.t EXCEPT !.consistent = gen_codes_consistent(t.bl_count)]

\* The forcing loop that always invents the symbol 0 and leaves max_code.
RECURSIVE build_tree_force_zero(_, _)
build_tree_force_zero(t, desc) ==
    IF Len(t.heap) >= 2 THEN t
    ELSE build_tree_force_zero(
            [t EXCEPT !.heap = Append(@, 0),
                      !.fc[0] = 1,
                      !.depth[0] = 0,
                      !.opt_len = @ - 1,
                      !.static_len = IF desc.has_stree
                                     THEN @ - desc_stree_len(desc, 0)
                                     ELSE @],
            desc)

\* while (s->heap_len_ < 2): force at least two codes of nonzero frequency.
RECURSIVE build_tree_force(_, _)
build_tree_force(t, desc) ==
    IF Len(t.heap) >= 2 THEN t
    ELSE LET node == IF t.max_code < 2 THEN t.max_code + 1 ELSE 0
         IN  build_tree_force(
                [t EXCEPT !.max_code = IF t.max_code < 2 THEN @ + 1 ELSE @,
                          !.heap = Append(@, node),
                          !.fc[node] = 1,
                          !.depth[node] = 0,
                          !.opt_len = @ - 1,
                          !.static_len = IF desc.has_stree
                                         THEN @ - desc_stree_len(desc, node)
                                         ELSE @],
                desc)

\* for (n = s->heap_len_/2; n >= 1; n--) pqdownheap(s, tree, n);
RECURSIVE build_tree_heapify(_, _)
build_tree_heapify(t, n) ==
    IF n < 1 THEN t ELSE build_tree_heapify(pqdownheap(t, n), n - 1)

\* The do-while loop combining the two least frequent nodes into node.
RECURSIVE build_tree_combine(_, _)
\* pqremove(s, tree, top), less the node removed: the heap after it.
pqremove(t) ==
    pqdownheap([t EXCEPT !.heap = IF Len(@) = 2 THEN <<@[2]>>
                                  ELSE <<@[Len(@)]>> \o SubSeq(@, 2, Len(@) - 1)], 1)

\* The nodes n and m, the two of least frequency, become the sons of node.
\* joins records, for each node made, its sons with their frequencies and
\* depths and whether no node left in the heap comes before either son.
build_tree_join(t1, n, m, node) ==
    pqdownheap([t1 EXCEPT !.sorted = <<m, n>> \o @,
                          !.joins = Append(@,
                              [n |-> n, m |-> m, node |-> node,
                               fn |-> t1.fc[n], fm |-> t1.fc[m],
                               dn |-> t1.depth[n], dm |-> t1.depth[m],
                               least |->
                                   \A i \in 1..Len(t1.heap) :
                                       \A x \in {n, m} :
                                           \/ t1.fc[x] < t1.fc[t1.heap[i]]
                                           \/ /\ t1.fc[x] = t1.fc[t1.heap[i]]
                                              /\ t1.depth[x] <= t1.depth[t1.heap[i]]]),
                          !.fc[node] = U16(t1.fc[n] + t1.fc[m]),
                          !.depth[node] = ((IF t1.depth[n] >= t1.depth[m]
                                            THEN t1.depth[n] ELSE t1.depth[m]) + 1) % 256,
                          !.dl[n] = node,
                          !.dl[m] = node,
                          !.heap[1] = node], 1)

build_tree_combine(t, node) ==
    With(pqremove(t), LAMBDA t1 :
    With(build_tree_join(t1, t.heap[1], t1.heap[1], node), LAMBDA t3 :
         IF Len(t3.heap) >= 2 THEN build_tree_combine(t3, node + 1)
         ELSE [t3 EXCEPT !.sorted = <<t3.heap[1]>> \o @]))

\* The tree and the heap of the nodes of nonzero frequency (used), before
\* build_tree forces two codes.
build_tree_start(freq, desc, opt_len, static_len, used) ==
    [fc |-> Eager([n \in 0..(2 * desc.elems) |->
                     IF n < desc.elems THEN freq[n] ELSE 0]),
     dl |-> Eager([n \in 0..(2 * desc.elems) |-> 0]),
     depth |-> Eager([n \in 0..(2 * desc.elems) |-> 0]),
     heap |-> <<>> \o [i \in 1..Cardinality(used) |->
                         CHOOSE n \in used : Cardinality({k \in used : k < n}) = i - 1],
     sorted |-> <<>>,
     joins |-> <<>>,
     max_code |-> IF used = {} THEN -1
                  ELSE CHOOSE n \in used : \A k \in used : k <= n,
     bl_count |-> Eager([b \in 0..maxBits |-> 0]),
     opt_len |-> opt_len,
     static_len |-> static_len,
     overflowed |-> FALSE,
     redist |-> [steps |-> 0, min_bits |-> maxBits, starved |-> FALSE,
                 leaves_in |-> 0, leaves_out |-> 0],
     consistent |-> TRUE,
     bad |-> FALSE]

\* build_tree(s, desc) on the frequencies freq[0 .. elems-1], with opt_len and
\* static_len as they stand.
build_tree(freq, desc, opt_len, static_len) ==
    With(build_tree_force(
           build_tree_start(freq, desc, opt_len, static_len,
                            {n \in 0..(desc.elems - 1) : freq[n] # 0}),
           desc), LAMBDA t1 :
    With(build_tree_heapify(t1, Len(t1.heap) \div 2), LAMBDA t2 :
    With(build_tree_combine(t2, desc.elems), LAMBDA t3 :
    With(gen_bitlen(t3, desc), LAMBDA t4 :
         IF t4.bad THEN t4 ELSE gen_codes(t4)))))

(***************************************************************************)
(* Sending the trees of a dynamic block.                                   *)
(***************************************************************************)
\* send_code(s, c, tree): tree is a record with the fields fc and dl.
send_code(s, c, tree) == send_bits(s, tree.fc[c], tree.dl[c])

\* max_count and min_count for the run that starts after curlen, given nextlen.
run_limits(curlen, nextlen) ==
    IF nextlen = 0 THEN [max_count |-> 138, min_count |-> 3]
    ELSE IF curlen = nextlen THEN [max_count |-> 6, min_count |-> 3]
    ELSE [max_count |-> 7, min_count |-> 4]

\* The state of the loops of scan_tree and send_tree before symbol 0.
run_start(tree) ==
    [prevlen |-> -1, nextlen |-> tree.dl[0], count |-> 0,
     max_count |-> IF tree.dl[0] = 0 THEN 138 ELSE 7,
     min_count |-> IF tree.dl[0] = 0 THEN 3 ELSE 4]

\* One iteration of the loop of scan_tree: a.fc are the bl_tree frequencies.
scan_tree_step(tree, a, n) ==
    LET curlen == a.nextlen
        nextlen == tree.dl[n + 1]
        count == a.count + 1
        lim == run_limits(curlen, nextlen)
        fc1 == IF count < a.min_count
               THEN [a.fc EXCEPT ![curlen] = U16(@ + count)]
               ELSE IF curlen # 0
               THEN LET f0 == IF curlen # a.prevlen
                              THEN [a.fc EXCEPT ![curlen] = U16(@ + 1)]
                              ELSE a.fc
                    IN  [f0 EXCEPT ![REP_3_6] = U16(@ + 1)]
               ELSE IF count <= 10
               THEN [a.fc EXCEPT ![REPZ_3_10] = U16(@ + 1)]
               ELSE [a.fc EXCEPT ![REPZ_11_138] = U16(@ + 1)]
    IN  IF count < a.max_count /\ curlen = nextlen
        THEN [a EXCEPT !.nextlen = nextlen, !.count = count]
        ELSE [fc |-> fc1, prevlen |-> curlen, nextlen |-> nextlen, count |-> 0,
              max_count |-> lim.max_count, min_count |-> lim.min_count]

\* scan_tree(s, tree, max_code): the tree with its guard set, and the bl_tree
\* frequencies fc with the tree's code lengths counted in.
scan_tree(fc, tree, max_code) ==
    LET guarded == [tree EXCEPT !.dl[max_code + 1] = 65535]
        a == ForRange(LAMBDA acc, n : scan_tree_step(guarded, acc, n),
                      [fc |-> fc] @@ run_start(guarded), 0, max_code)
    IN  [tree |-> guarded, fc |-> a.fc]

\* do { send_code(s, curlen, s->bl_tree_); } while (--count != 0);
RECURSIVE send_tree_repeat(_, _, _, _)
send_tree_repeat(s, bl, curlen, count) ==
    With(send_code(s, curlen, bl), LAMBDA s1 :
         IF count - 1 # 0 THEN send_tree_repeat(s1, bl, curlen, count - 1) ELSE s1)

\* send_tree's loop without the count-- that follows the length sent ahead of
\* a REP_3_6.
send_tree_step_nodec(tree, bl, a, n) ==
    LET curlen == a.nextlen
        nextlen == tree.dl[n + 1]
        count == a.count + 1
        lim == run_limits(curlen, nextlen)
        s1 == IF count < a.min_count
              THEN send_tree_repeat(a.s, bl, curlen, count)
              ELSE IF curlen # 0
              THEN LET first == curlen # a.prevlen
                       s0 == IF first THEN send_code(a.s, curlen, bl) ELSE a.s
                   IN  send_bits(send_code(s0, REP_3_6, bl), count - 3, 2)
              ELSE IF count <= 10
              THEN send_bits(send_code(a.s, REPZ_3_10, bl), count - 3, 3)
              ELSE send_bits(send_code(a.s, REPZ_11_138, bl), count - 11, 7)
    IN  IF count < a.max_count /\ curlen = nextlen
        THEN [a EXCEPT !.nextlen = nextlen, !.count = count]
        ELSE [s |-> s1, prevlen |-> curlen, nextlen |-> nextlen, count |-> 0,
              max_count |-> lim.max_count, min_count |-> lim.min_count]

\* One iteration of the loop of send_tree: a.s is the bit sink.
send_tree_step(tree, bl, a, n) ==
    LET curlen == a.nextlen
        nextlen == tree.dl[n + 1]
        count == a.count + 1
        lim == run_limits(curlen, nextlen)
        s1 == IF count < a.min_count
              THEN send_tree_repeat(a.s, bl, curlen, count)
              ELSE IF curlen # 0
              THEN LET first == curlen # a.prevlen
                       s0 == IF first THEN send_code(a.s, curlen, bl) ELSE a.s
                       c0 == IF first THEN count - 1 ELSE count
                   IN  send_bits(send_code(s0, REP_3_6, bl), c0 - 3, 2)
              ELSE IF count <= 10
              THEN send_bits(send_code(a.s, REPZ_3_10, bl), count - 3, 3)
              ELSE send_bits(send_code(a.s, REPZ_11_138, bl), count - 11, 7)
    IN  IF count < a.max_count /\ curlen = nextlen
        THEN [a EXCEPT !.nextlen = nextlen, !.count = count]
        ELSE [s |-> s1, prevlen |-> curlen, nextlen |-> nextlen, count |-> 0,
              max_count |-> lim.max_count, min_count |-> lim.min_count]

\* send_tree(s, tree, max_code), with the codes of bl_tree in bl.
send_tree(s, tree, bl, max_code) ==
    ForRange(LAMBDA acc, n : send_tree_step(tree, bl, acc, n),
             [s |-> s] @@ run_start(tree), 0, max_code).s

\* The index in bl_order of the last bit length code to send (from 0).
max_blindex_of(bl) ==
    LET nz == {i \in 3..(blCodes - 1) : bl.dl[bl_order[i + 1]] # 0}
    IN  IF nz = {} THEN 2 ELSE CHOOSE i \in nz : \A j \in nz : j <= i

\* build_bl_tree without the bits of the three counts in opt_len.
build_bl_tree_nocounts(lt, dt, blfreq) ==
    With(scan_tree(blfreq, lt, lt.max_code), LAMBDA sl :
    With(scan_tree(sl.fc, dt, dt.max_code), LAMBDA sd :
    With(build_tree(sd.fc, bl_desc, dt.opt_len, dt.static_len), LAMBDA bl :
    With(max_blindex_of(bl), LAMBDA max_blindex :
         [lt |-> sl.tree, dt |-> sd.tree, bl |-> bl, max_blindex |-> max_blindex,
          opt_len |-> bl.opt_len + 3 * (max_blindex + 1),
          static_len |-> bl.static_len]))))

\* build_bl_tree(s): lt and dt are the built literal and distance trees,
\* blfreq the bl_tree frequencies as they stand.
build_bl_tree(lt, dt, blfreq) ==
    With(scan_tree(blfreq, lt, lt.max_code), LAMBDA sl :
    With(scan_tree(sl.fc, dt, dt.max_code), LAMBDA sd :
    With(build_tree(sd.fc, bl_desc, dt.opt_len, dt.static_len), LAMBDA bl :
    With(max_blindex_of(bl), LAMBDA max_blindex :
         [lt |-> sl.tree, dt |-> sd.tree, bl |-> bl, max_blindex |-> max_blindex,
          opt_len |-> bl.opt_len + 3 * (max_blindex + 1) + 5 + 5 + 4,
          static_len |-> bl.static_len]))))

\* for (rank = 0; rank < blcodes; rank++) send_bits(..., 3)
RECURSIVE send_bl_lengths(_, _, _, _)
send_bl_lengths(s, bl, rank, blcodes) ==
    IF rank >= blcodes THEN s
    ELSE With(send_bits(s, bl.dl[bl_order[rank + 1]], 3), LAMBDA s1 :
              send_bl_lengths(s1, bl, rank + 1, blcodes))

\* send_all_trees with the distance count sent ahead of the literal count.
send_all_trees_swapped(s, lt, dt, bl, lcodes, dcodes, blcodes) ==
    With(send_bits(send_bits(send_bits(s, dcodes - 1, 5), lcodes - 257, 5),
                   blcodes - 4, 4), LAMBDA s3 :
    With(send_bl_lengths(s3, bl, 0, blcodes), LAMBDA s4 :
    With(send_tree(s4, lt, bl, lcodes - 1), LAMBDA s5 :
         send_tree(s5, dt, bl, dcodes - 1))))

send_all_trees(s, lt, dt, bl, lcodes, dcodes, blcodes) ==
    With(send_bits(send_bits(send_bits(s, lcodes - 257, 5), dcodes - 1, 5),
                   blcodes - 4, 4), LAMBDA s3 :
    With(send_bl_lengths(s3, bl, 0, blcodes), LAMBDA s4 :
    With(send_tree(s4, lt, bl, lcodes - 1), LAMBDA s5 :
         send_tree(s5, dt, bl, dcodes - 1))))

(***************************************************************************)
(* Block emission.                                                         *)
(***************************************************************************)
STORED_BLOCK == 0
STATIC_TREES == 1
DYN_TREES == 2
Z_BINARY == 0
Z_TEXT == 1
Z_UNKNOWN == 2
Z_DEFAULT_STRATEGY == 0
Z_FIXED == 4

\* The static trees as ct_data arrays.
static_ltree == [fc |-> static_ltree_code, dl |-> static_ltree_len]
static_dtree == [fc |-> static_dtree_code, dl |-> static_dtree_len]

\* while (len--) put_byte(s, *buf++): the bytes of buf from the i-th on.
copy_bytes(s, buf, i) ==
    ForRange(LAMBDA a, n : put_byte(a, buf[n]), s, i, Len(buf))

\* copy_block that writes LEN twice instead of LEN and its complement.
copy_block_twice(s, buf, len, header) ==
    With(IF header
         THEN put_short(put_short(bi_windup(s), U16(len)), U16(len))
         ELSE bi_windup(s), LAMBDA s2 :
         copy_bytes(s2, SubSeq(buf, 1, len), 1))

\* copy_block(s, buf, len, header): buf holds the len bytes to copy.
copy_block(s, buf, len, header) ==
    With(IF header
         THEN put_short(put_short(bi_windup(s), U16(len)), 65535 - U16(len))
         ELSE bi_windup(s), LAMBDA s2 :
         copy_bytes(s2, SubSeq(buf, 1, len), 1))

\* _tr_stored_block that copies the block without LEN and NLEN.
tr_stored_block_raw(s, buf, stored_len, last) ==
    copy_block(send_bits(s, STORED_BLOCK * 2 + last, 3), buf, stored_len, FALSE)

tr_stored_block(s, buf, stored_len, last) ==
    copy_block(send_bits(s, STORED_BLOCK * 2 + last, 3), buf, stored_len, TRUE)

tr_flush_bits(s) == bi_flush(s)

tr_align(s) ==
    bi_flush(send_code(send_bits(s, STATIC_TREES * 2, 3), END_BLOCK, static_ltree))

\* The body of the loop of compress_block for the entry lx (from 1) of the
\* literal buffer lits, a sequence of pairs <<dist, lc>>.
\* The loop body without dist--: the distance is sent as it was tallied.
compress_block_entry_nodec(s, lits, lx, ltree, dtree) ==
    LET dist == lits[lx][1]
        lc == lits[lx][2]
    IN  IF dist = 0 THEN send_code(s, lc, ltree)
        ELSE
          LET code == length_code[lc]
              s1 == send_code(s, code + literals + 1, ltree)
              extra == extra_lbits[code + 1]
              s2 == IF extra # 0
                    THEN send_bits(s1, lc - base_length[code + 1], extra)
                    ELSE s1
              dcode == d_code(dist)
              s3 == send_code(s2, dcode, dtree)
              dextra == extra_dbits[dcode + 1]
          IN  IF dextra # 0
              THEN send_bits(s3, dist - base_dist[dcode + 1], dextra)
              ELSE s3

compress_block_entry(s, lits, lx, ltree, dtree) ==
    LET dist == lits[lx][1]
        lc == lits[lx][2]
    IN  IF dist = 0 THEN send_code(s, lc, ltree)
        ELSE
          LET code == length_code[lc]
              s1 == send_code(s, code + literals + 1, ltree)
              extra == extra_lbits[code + 1]
              s2 == IF extra # 0
                    THEN send_bits(s1, lc - base_length[code + 1], extra)
                    ELSE s1
              dist1 == dist - 1
              dcode == d_code(dist1)
              s3 == send_code(s2, dcode, dtree)
              dextra == extra_dbits[dcode + 1]
          IN  IF dextra # 0
              THEN send_bits(s3, dist1 - base_dist[dcode + 1], dextra)
              ELSE s3

RECURSIVE compress_block_loop(_, _, _, _, _)
compress_block_loop(s, lits, lx, ltree, dtree) ==
    With(compress_block_entry(s, lits, lx, ltree, dtree), LAMBDA s1 :
         IF lx < Len(lits) THEN compress_block_loop(s1, lits, lx + 1, ltree, dtree)
         ELSE s1)

\* compress_block with END_BLOCK sent before the entries of the buffer.
compress_block_endfirst(s, lits, ltree, dtree) ==
    With(send_code(s, END_BLOCK, ltree), LAMBDA s1 :
         IF Len(lits) # 0 THEN compress_block_loop(s1, lits, 1, ltree, dtree)
         ELSE s1)

compress_block(s, lits, ltree, dtree) ==
    With(IF Len(lits) # 0 THEN compress_block_loop(s, lits, 1, ltree, dtree)
         ELSE s, LAMBDA s1 :
         send_code(s1, END_BLOCK, ltree))

\* detect_data_type with the byte 7 on the black list.
detect_data_type_bel(fc) ==
    LET black == (0..7) \cup (14..25) \cup (28..31)
    IN  IF \E n \in black : fc[n] # 0 THEN Z_BINARY
        ELSE IF fc[9] # 0 \/ fc[10] # 0 \/ fc[13] # 0 THEN Z_TEXT
        ELSE IF \E n \in 32..(literals - 1) : fc[n] # 0 THEN Z_TEXT
        ELSE Z_BINARY

\* detect_data_type(s) on the literal frequencies fc.
detect_data_type(fc) ==
    LET black == (0..6) \cup (14..25) \cup (28..31)
    IN  IF \E n \in black : fc[n] # 0 THEN Z_BINARY
        ELSE IF fc[9] # 0 \/ fc[10] # 0 \/ fc[13] # 0 THEN Z_TEXT
        ELSE IF \E n \in 32..(literals - 1) : fc[n] # 0 THEN Z_TEXT
        ELSE Z_BINARY

(***************************************************************************)
(* The block state: a record st with the fields level, strategy,           *)
(* data_type, lit_buf, dyn_ltree, dyn_dtree, bl_tree (frequencies),        *)
(* opt_len, static_len, matches and sink.                                  *)
(***************************************************************************)
\* init_block without s->dyn_ltree_[END_BLOCK].fc = 1.
init_block_noend(st) ==
    [st EXCEPT !.dyn_ltree = Eager([n \in 0..(lCodes - 1) |-> 0]),
               !.dyn_dtree = Eager([n \in 0..(dCodes - 1) |-> 0]),
               !.bl_tree = Eager([n \in 0..(blCodes - 1) |-> 0]),
               !.opt_len = 0,
               !.static_len = 0,
               !.lit_buf = <<>>,
               !.matches = 0]

\* init_block that leaves matches as it is.
init_block_leak(st) ==
    [st EXCEPT !.dyn_ltree = Eager([n \in 0..(lCodes - 1) |->
                                      IF n = END_BLOCK THEN 1 ELSE 0]),
               !.dyn_dtree = Eager([n \in 0..(dCodes - 1) |-> 0]),
               !.bl_tree = Eager([n \in 0..(blCodes - 1) |-> 0]),
               !.opt_len = 0,
               !.static_len = 0,
               !.lit_buf = <<>>]

init_block(st) ==
    [st EXCEPT !.dyn_ltree = Eager([n \in 0..(lCodes - 1) |->
                                      IF n = END_BLOCK THEN 1 ELSE 0]),
               !.dyn_dtree = Eager([n \in 0..(dCodes - 1) |-> 0]),
               !.bl_tree = Eager([n \in 0..(blCodes - 1) |-> 0]),
               !.opt_len = 0,
               !.static_len = 0,
               !.lit_buf = <<>>,
               !.matches = 0]

\* _tr_init(s) for a stream created with the given level and strategy.
tr_init(level, strategy) ==
    init_block([level |-> level, strategy |-> strategy, data_type |-> Z_UNKNOWN,
                lit_buf |-> <<>>, dyn_ltree |-> <<>>, dyn_dtree |-> <<>>,
                bl_tree |-> <<>>, opt_len |-> 0, static_len |-> 0, matches |-> 0,
                sink |-> [bi_buf |-> 0, bi_valid |-> 0, pending |-> <<>>]])

\* _tr_tally counting a match's length at the code before its own.
tr_tally_off(st, dist, lc) ==
    LET st1 == [st EXCEPT !.lit_buf = Append(@, <<U16(dist), lc % 256>>)]
    IN  IF dist = 0
        THEN [st1 EXCEPT !.dyn_ltree[lc] = U16(@ + 1)]
        ELSE [st1 EXCEPT !.matches = @ + 1,
                         !.dyn_ltree[length_code[lc] + literals] = U16(@ + 1),
                         !.dyn_dtree[d_code(dist - 1)] = U16(@ + 1)]

\* _tr_tally without the count of the distance code.
tr_tally_nodist(st, dist, lc) ==
    LET st1 == [st EXCEPT !.lit_buf = Append(@, <<U16(dist), lc % 256>>)]
    IN  IF dist = 0
        THEN [st1 EXCEPT !.dyn_ltree[lc] = U16(@ + 1)]
        ELSE [st1 EXCEPT !.matches = @ + 1,
                         !.dyn_ltree[length_code[lc] + literals + 1] = U16(@ + 1)]

\* _tr_tally(s, dist, lc), less its return value.
tr_tally(st, dist, lc) ==
    LET st1 == [st EXCEPT !.lit_buf = Append(@, <<U16(dist), lc % 256>>)]
    IN  IF dist = 0
        THEN [st1 EXCEPT !.dyn_ltree[lc] = U16(@ + 1)]
        ELSE [st1 EXCEPT !.matches = @ + 1,
                         !.dyn_ltree[length_code[lc] + literals + 1] = U16(@ + 1),
                         !.dyn_dtree[d_code(dist - 1)] = U16(@ + 1)]

\* The return value one entry late: true when the buffer is full.
tr_tally_full_late(st, lit_bufsize) == Len(st.lit_buf) = lit_bufsize

\* The value _tr_tally returns: the block must be flushed.
tr_tally_full(st, lit_bufsize) == Len(st.lit_buf) = lit_bufsize - 1

\* The size in bits taken for the size in bytes.
len_in_bytes_bits(len) == len + 3

\* opt_len or static_len in bytes, with the three bits of the block header.
len_in_bytes(len) == (len + 3 + 7) \div 8

\* if (static_lenb <= opt_lenb) opt_lenb = static_lenb;
best_lenb(static_lenb, opt_lenb) ==
    IF static_lenb <= opt_lenb THEN static_lenb ELSE opt_lenb

\* The forced size two bytes short: the stored block no longer fits.
forced_lenb_short(stored_len) == stored_len + 3

\* opt_lenb = static_lenb = stored_len + 5, which forces a stored block.
forced_lenb(stored_len) == stored_len + 5

\* The choice with the stored block counted as stored_len + 5 bytes.
block_type_five(strategy, buf_null, stored_len, static_lenb, opt_lenb) ==
    IF stored_len + 5 <= opt_lenb /\ ~buf_null THEN STORED_BLOCK
    ELSE IF strategy = Z_FIXED \/ static_lenb = opt_lenb THEN STATIC_TREES
    ELSE DYN_TREES

\* The choice without the test of the strategy.
block_type_free(strategy, buf_null, stored_len, static_lenb, opt_lenb) ==
    IF stored_len + 4 <= opt_lenb /\ ~buf_null THEN STORED_BLOCK
    ELSE IF static_lenb = opt_lenb THEN STATIC_TREES
    ELSE DYN_TREES

\* The choice with ties going to the dynamic trees.
block_type_dyn(strategy, buf_null, stored_len, static_lenb, opt_lenb) ==
    IF stored_len + 4 <= opt_lenb /\ ~buf_null THEN STORED_BLOCK
    ELSE IF strategy = Z_FIXED \/ static_lenb < opt_lenb THEN STATIC_TREES
    ELSE DYN_TREES

\* The encoding _tr_flush_block picks; opt_lenb is the smaller of the two
\* Huffman sizes, buf_null tells that buf is NULL.
block_type(strategy, buf_null, stored_len, static_lenb, opt_lenb) ==
    IF stored_len + 4 <= opt_lenb /\ ~buf_null THEN STORED_BLOCK
    ELSE IF strategy = Z_FIXED \/ static_lenb = opt_lenb THEN STATIC_TREES
    ELSE DYN_TREES

\* The trees _tr_flush_block builds when level > 0.
flush_trees(st) ==
    With(build_tree(st.dyn_ltree, l_desc, st.opt_len, st.static_len), LAMBDA lt :
    With(build_tree(st.dyn_dtree, d_desc, lt.opt_len, lt.static_len), LAMBDA dt :
         build_bl_tree(lt, dt, st.bl_tree)))

\* static_lenb, the size with the dynamic trees (dyn_lenb) and opt_lenb.
flush_sizes(built, bb, stored_len) ==
    IF built
    THEN [static_lenb |-> len_in_bytes(bb.static_len),
          dyn_lenb |-> len_in_bytes(bb.opt_len),
          opt_lenb |-> best_lenb(len_in_bytes(bb.static_len),
                                 len_in_bytes(bb.opt_len))]
    ELSE [static_lenb |-> forced_lenb(stored_len),
          dyn_lenb |-> forced_lenb(stored_len),
          opt_lenb |-> forced_lenb(stored_len)]

\* The block as sent by an encoder that stores every block of text.
flush_emit_hint(st, buf, stored_len, last, bb, btype) ==
    IF btype = STORED_BLOCK \/ st.data_type = Z_TEXT
    THEN tr_stored_block(st.sink, buf.bytes, stored_len, last)
    ELSE IF btype = STATIC_TREES
    THEN compress_block(send_bits(st.sink, STATIC_TREES * 2 + last, 3),
                        st.lit_buf, static_ltree, static_dtree)
    ELSE With(send_all_trees(send_bits(st.sink, DYN_TREES * 2 + last, 3),
                             bb.lt, bb.dt, bb.bl, bb.lt.max_code + 1,
                             bb.dt.max_code + 1, bb.max_blindex + 1), LAMBDA s :
              compress_block(s, st.lit_buf, bb.lt, bb.dt))

\* The block of type btype as _tr_flush_block sends it.
flush_emit(st, buf, stored_len, last, bb, btype) ==
    IF btype = STORED_BLOCK
    THEN tr_stored_block(st.sink, buf.bytes, stored_len, last)
    ELSE IF btype = STATIC_TREES
    THEN compress_block(send_bits(st.sink, STATIC_TREES * 2 + last, 3),
                        st.lit_buf, static_ltree, static_dtree)
    ELSE With(send_all_trees(send_bits(st.sink, DYN_TREES * 2 + last, 3),
                             bb.lt, bb.dt, bb.bl, bb.lt.max_code + 1,
                             bb.dt.max_code + 1, bb.max_blindex + 1), LAMBDA s :
              compress_block(s, st.lit_buf, bb.lt, bb.dt))

\* _tr_flush_block(s, buf, stored_len, last): buf is a record with the fields
\* null and bytes.  The result holds the state after the call (st) and what the
\* call computed on the way; ltree and dtree are the codes (fc) and lengths (dl)
\* the call leaves in dyn_ltree_ and dyn_dtree_ before init_block clears fc,
\* codes the three counts send_all_trees would be called with and the lengths
\* (dl) left in bl_tree_, sizes opt_len_ and static_len_ as they stand when the
\* block is sent and the number of bits the block has added to the output
\* before bi_windup, in_ok whether every send_bits call of the block has met
\* its IN assertion.
tr_flush_block(st, buf, stored_len, last) ==
    With(IF st.level > 0 THEN flush_trees(st) ELSE [built |-> FALSE], LAMBDA bb :
    With(flush_sizes(st.level > 0, bb, stored_len), LAMBDA sz :
    With(block_type(st.strategy, buf.null, stored_len, sz.static_lenb,
                    sz.opt_lenb), LAMBDA btype :
    With(flush_emit(st, buf, stored_len, last, bb, btype), LAMBDA s1 :
         [st |-> init_block(
                   [st EXCEPT !.data_type = IF st.level > 0 /\ @ = Z_UNKNOWN
                                            THEN detect_data_type(st.dyn_ltree)
                                            ELSE @,
                              !.sink = IF last # 0 THEN bi_windup(s1) ELSE s1]),
          btype |-> btype, built |-> st.level > 0,
          static_lenb |-> sz.static_lenb, dyn_lenb |-> sz.dyn_lenb,
          opt_lenb |-> sz.opt_lenb,
          ltree |-> IF st.level > 0 THEN [fc |-> bb.lt.fc, dl |-> bb.lt.dl]
                    ELSE [fc |-> <<>>, dl |-> <<>>],
          dtree |-> IF st.level > 0 THEN [fc |-> bb.dt.fc, dl |-> bb.dt.dl]
                    ELSE [fc |-> <<>>, dl |-> <<>>],
          codes |-> IF st.level > 0
                    THEN [lcodes |-> bb.lt.max_code + 1,
                          dcodes |-> bb.dt.max_code + 1,
                          blcodes |-> bb.max_blindex + 1, bl_dl |-> bb.bl.dl]
                    ELSE [lcodes |-> 0, dcodes |-> 0, blcodes |-> 0,
                          bl_dl |-> <<>>],
          sizes |-> [opt_len |-> IF st.level > 0 THEN bb.opt_len ELSE st.opt_len,
                     static_len |-> IF st.level > 0 THEN bb.static_len
                                    ELSE st.static_len,
                     bits |-> 8 * (Len(s1.pending) - Len(st.sink.pending))
                              + s1.bi_valid - st.sink.bi_valid],
          in_ok |-> "bad" \notin DOMAIN s1]))))

\* The sink held by the state variables.
Sink == [bi_buf |-> bi_buf, bi_valid |-> bi_valid, pending |-> pending]

\* The sink with nothing written: _tr_init on a fresh pending buffer.
EmptySink == [bi_buf |-> 0, bi_valid |-> 0, pending |-> <<>>]

SetSink(s) ==
    /\ bi_buf' = s.bi_buf
    /\ bi_valid' = s.bi_valid
    /\ pending' = s.pending

\* Every bit written so far: the pending bytes, then the accumulator's bits.
StreamBits(s) == BytesToBits(s.pending) \o LowBits(s.bi_buf, s.bi_valid)

(***************************************************************************)
(* Specification of the bit sink alone: any sequence of send_bits,         *)
(* bi_flush and bi_windup calls.                                           *)
(***************************************************************************)
\* The values sent with a given length: all ones, and the highest bit only.
SendValues(length) == {Pow2(length) - 1, Pow2(length - 1)}

\* Number of zero bits bi_windup is meant to add: up to the byte boundary.
PadBits(n) == [i \in 1..((8 - (n % 8)) % 8) |-> 0]

NoTree == [built |-> FALSE]

\* send_tree alone is not in use.
IdleSend ==
    /\ s_tree = <<>>
    /\ s_bl = <<>>
    /\ s_out = <<>>

\* No handler_ptr exists.
IdlePtr ==
    /\ p_ = <<>>
    /\ next_ = <<>>
    /\ prev_ = <<>>
    /\ live = {}
    /\ made = 0
    /\ destroys = <<>>
    /\ op = "idle"

\* No read() is under way.
IdleRead ==
    /\ stream = <<>>
    /\ buffer = <<>>
    /\ skip_ = 0
    /\ f_ = {}
    /\ length_ = 0
    /\ body_ = <<>>
    /\ len_ = 0
    /\ ec = "idle"
    /\ pc = "idle"

\* The components other than the block emitter are not in use.
IdleOther == IdleSend /\ IdlePtr /\ IdleRead

IdleTree ==
    /\ t_desc = "none"
    /\ t_freq = <<>>
    /\ t_out = NoTree

IdleSink ==
    /\ bi_buf = 0
    /\ bi_valid = 0
    /\ pending = <<>>
    /\ sent = <<>>
    /\ nsend = 0

NoBlock ==
    [kind |-> "none", btype |-> -1, last |-> 0, buf_null |-> TRUE, stored_len |-> 0,
     lits |-> <<>>, start |-> 0, built |-> FALSE, static_lenb |-> 0,
     dyn_lenb |-> 0, opt_lenb |-> 0,
     ltree |-> [fc |-> <<>>, dl |-> <<>>], dtree |-> [fc |-> <<>>, dl |-> <<>>],
     codes |-> [lcodes |-> 0, dcodes |-> 0, blcodes |-> 0, bl_dl |-> <<>>],
     sizes |-> [opt_len |-> 0, static_len |-> 0, bits |-> 0], in_ok |-> TRUE]

IdleBlock ==
    /\ level_ = 0
    /\ strategy_ = 0
    /\ data_type = 0
    /\ lit_buf = <<>>
    /\ dyn_ltree_ = <<>>
    /\ dyn_dtree_ = <<>>
    /\ bl_tree_ = <<>>
    /\ opt_len_ = 0
    /\ static_len_ = 0
    /\ matches_ = 0
    /\ blk = NoBlock
    /\ nblocks = 0

InitBits ==
    /\ IdleOther
    /\ IdleSink
    /\ IdleTree
    /\ IdleBlock

SendBits(value, length) ==
    /\ nsend < MaxSinkOps
    /\ SetSink(send_bits(Sink, value, length))
    /\ sent' = sent \o LowBits(value, length)
    /\ nsend' = nsend + 1
    /\ UNCHANGED <<othervars, treevars, blockvars>>

BiFlush ==
    /\ nsend < MaxSinkOps
    /\ SetSink(bi_flush(Sink))
    /\ nsend' = nsend + 1
    /\ UNCHANGED <<othervars, sent, treevars, blockvars>>

BiWindup ==
    /\ nsend < MaxSinkOps
    /\ SetSink(bi_windup(Sink))
    /\ sent' = sent \o PadBits(Len(sent))
    /\ nsend' = nsend + 1
    /\ UNCHANGED <<othervars, treevars, blockvars>>

NextBits ==
    \/ \E length \in 1..Buf_size : \E value \in SendValues(length) :
          SendBits(value, length)
    \/ BiFlush
    \/ BiWindup

SpecBits == InitBits /\ [][NextBits]_vars

(***************************************************************************)
(* C2: after any sequence of send_bits calls the pending bytes followed by *)
(* the low bi_valid bits of bi_buf are the LSB-first concatenation of the  *)
(* values sent, in call order: no bit is lost, duplicated or reordered     *)
(* when the accumulator spills.                                            *)
(***************************************************************************)
C2_LsbFirstConcatenation == StreamBits(Sink) = sent

\* A spill has happened: three values were sent and bytes are pending.
C2_Witness ==
    /\ nsend = MaxSinkOps
    /\ Len(pending) >= 2
    /\ bi_valid > 0
    /\ \E i \in 1..Len(sent) : sent[i] = 1

(***************************************************************************)
(* C3 as stated: bi_valid < 16 between bit-sink operations.                *)
(***************************************************************************)
C3_BiValidBelow16 == bi_valid < 16

(***************************************************************************)
(* C3 as amended: bi_valid <= 16 between bit-sink operations, and 16 is    *)
(* reached (send_bits spills only when bi_valid + length exceeds 16).      *)
(***************************************************************************)
C3_BiValidAtMost16 == bi_valid \in 0..Buf_size

C3_Witness == bi_valid = Buf_size /\ nsend > 1


(***************************************************************************)
(* Specification of the tree builder alone: build_tree on the frequency    *)
(* vectors of a bounded family, for each of the three descriptors.         *)
(***************************************************************************)
DescOf(name) == IF name = "l" THEN l_desc ELSE IF name = "d" THEN d_desc ELSE bl_desc

\* The symbol whose frequency is given i-th (from 0): for the literal/length
\* tree the symbols around END_BLOCK, so that literals, END_BLOCK and length
\* codes with extra bits occur.
SymAt(name, i) == IF name = "l" THEN 250 + i ELSE i

\* The nonzero frequencies given so far.
NonZero(fs) == SelectSeq(fs, LAMBDA f : f # 0)

\* The next frequency of the Fibonacci-like chain: the sum of the last two
\* nonzero frequencies given.
ChainNext(fs) ==
    LET nz == NonZero(fs)
    IN  IF nz = <<>> THEN 1
        ELSE IF Len(nz) = 1 THEN nz[1]
        ELSE nz[Len(nz)] + nz[Len(nz) - 1]

FreqChoices(fs) ==
    IF Len(fs) < MaxBranch THEN {0, 1, ChainNext(fs)} ELSE {ChainNext(fs)}

\* The frequency vector of descriptor name given by fs.
FreqVector(name, fs) ==
    [n \in 0..(DescOf(name).elems - 1) |->
        LET i == n - SymAt(name, 0)
        IN  IF i >= 0 /\ i < Len(fs) THEN fs[i + 1] ELSE 0]

\* What the rest of the program reads of a built tree.
TreeOut(name, t) ==
    [built |-> TRUE,
     len |-> [n \in 0..(DescOf(name).elems - 1) |-> t.dl[n]],
     code |-> [n \in 0..(DescOf(name).elems - 1) |-> t.fc[n]],
     max_code |-> t.max_code,
     bl_count |-> t.bl_count,
     opt_len |-> t.opt_len,
     static_len |-> t.static_len,
     overflowed |-> t.overflowed,
     redist |-> t.redist,
     joins |-> t.joins,
     node_fc |-> [i \in 1..Len(t.joins) |-> t.fc[t.joins[i].node]],
     node_depth |-> [i \in 1..Len(t.joins) |-> t.depth[t.joins[i].node]],
     consistent |-> t.consistent,
     bad |-> t.bad]

InitTree ==
    /\ IdleOther
    /\ IdleSink
    /\ t_desc \in {"l", "d", "bl"}
    /\ t_freq = <<>>
    /\ t_out = NoTree
    /\ IdleBlock

SetFreq(f) ==
    /\ ~t_out.built
    /\ Len(t_freq) < MaxSyms
    /\ Len(t_freq) < DescOf(t_desc).elems
    /\ t_freq' = Append(t_freq, f)
    /\ UNCHANGED <<othervars, t_desc, t_out, bitvars, blockvars>>

BuildTree ==
    /\ ~t_out.built
    /\ t_out' = TreeOut(t_desc,
                        build_tree(FreqVector(t_desc, t_freq), DescOf(t_desc), 0, 0))
    /\ UNCHANGED <<othervars, t_desc, t_freq, bitvars, blockvars>>

NextTree ==
    \/ \E f \in FreqChoices(t_freq) : SetFreq(f)
    \/ BuildTree

SpecTree == InitTree /\ [][NextTree]_vars

\* The number of symbols of a built tree with code length L.
CountLen(L) ==
    Cardinality({n \in DOMAIN t_out.len : t_out.len[n] = L})

RECURSIVE KraftSum(_, _)
KraftSum(count, L) ==
    IF L > maxBits THEN 0
    ELSE count[L] * Pow2(maxBits - L) + KraftSum(count, L + 1)

(***************************************************************************)
(* C4: after every build_tree, redistribution included, the per-length     *)
(* counts satisfy Sum bl_count[L] * 2^(MAX_BITS-L) = 2^MAX_BITS, bl_count   *)
(* counts the symbols of each nonzero length (so the code is complete),    *)
(* and the gen_codes assertion 'inconsistent bit counts' holds.            *)
(***************************************************************************)
C4_CompleteCode ==
    t_out.built =>
        /\ ~t_out.bad
        /\ t_out.bl_count[0] = 0
        /\ KraftSum(t_out.bl_count, 1) = Pow2(maxBits)
        /\ \A L \in 1..maxBits : t_out.bl_count[L] = CountLen(L)
        /\ t_out.consistent

\* A tree whose lengths were redistributed.
C4_Witness ==
    /\ t_out.built
    /\ t_out.overflowed
    /\ t_desc = "bl"
    /\ Cardinality({n \in DOMAIN t_out.len : t_out.len[n] # 0}) >= 10

(***************************************************************************)
(* C5: after build_tree no code length exceeds max_length: 15 for the      *)
(* literal/length and distance trees, 7 for the bit-length tree.           *)
(***************************************************************************)
C5_LengthBound ==
    t_out.built =>
        \A n \in DOMAIN t_out.len :
            t_out.len[n] <= (IF t_desc = "bl" THEN 7 ELSE 15)

\* A literal/length tree that overflowed 15 bits and has a code of 15 bits.
C5_Witness ==
    /\ t_out.built
    /\ t_out.overflowed
    /\ t_desc = "l"
    /\ \E n \in DOMAIN t_out.len : t_out.len[n] = 15

(***************************************************************************)
(* C6: gen_codes assigns canonical codes from the lengths gen_bitlen left: *)
(* the first code of length L is (first_code[L-1] + bl_count[L-1]) << 1,   *)
(* symbols of equal length get consecutive codes in increasing symbol      *)
(* order, each code is stored bit-reversed over its length, and the codes  *)
(* of the symbols with nonzero length are prefix-free.                     *)
(***************************************************************************)
RECURSIVE FirstCode(_, _)
FirstCode(count, L) ==
    IF L = 0 THEN 0 ELSE (FirstCode(count, L - 1) + count[L - 1]) * 2

\* The len-bit value code with its bits in the opposite order.
RECURSIVE Mirror(_, _)
Mirror(code, len) ==
    IF len = 0 THEN 0
    ELSE (code % 2) * Pow2(len - 1) + Mirror(code \div 2, len - 1)

Coded == {n \in DOMAIN t_out.len : t_out.len[n] # 0}

C6_CanonicalCodes ==
    t_out.built =>
        /\ \A n \in Coded :
              LET L == t_out.len[n]
                  rank == Cardinality({m \in Coded : m < n /\ t_out.len[m] = L})
              IN  /\ n <= t_out.max_code
                  /\ t_out.code[n] = Mirror(FirstCode(t_out.bl_count, L) + rank, L)
        /\ \A a \in Coded : \A b \in Coded :
              (a # b /\ t_out.len[a] <= t_out.len[b]) =>
                  t_out.code[b] % Pow2(t_out.len[a]) # t_out.code[a]

\* A tree with three codes of one length and codes of five other lengths.
C6_Witness ==
    /\ t_out.built
    /\ \E L \in 1..maxBits : t_out.bl_count[L] >= 3
    /\ Cardinality({t_out.len[n] : n \in Coded}) >= 6

(***************************************************************************)
(* The block emitter: _tr_tally fills the literal buffer, _tr_flush_block   *)
(* emits it as one block, _tr_align and _tr_stored_block emit the empty     *)
(* blocks of a flush.                                                      *)
(***************************************************************************)
\* Compression levels and strategies a stream is created with.
Levels == {0, 6}
Strategies == {Z_DEFAULT_STRATEGY, Z_FIXED}

\* What _tr_tally is called with: a literal, and a match whose length and
\* distance both carry extra bits.
TallyInputs == {<<0, 200>>, <<30000, 10>>}

\* The input block handed to _tr_flush_block: len bytes, or NULL.
BufBytes(len) == [i \in 1..len |-> (89 * i + 7) % 256]
Buf(buf_null, len) ==
    [null |-> buf_null, bytes |-> IF buf_null THEN <<>> ELSE BufBytes(len)]
StoredLens == {0, 1, MaxStored}

State ==
    [level |-> level_, strategy |-> strategy_, data_type |-> data_type,
     lit_buf |-> lit_buf, dyn_ltree |-> dyn_ltree_, dyn_dtree |-> dyn_dtree_,
     bl_tree |-> bl_tree_, opt_len |-> opt_len_, static_len |-> static_len_,
     matches |-> matches_, sink |-> Sink]

SetState(st) ==
    /\ level_' = st.level
    /\ strategy_' = st.strategy
    /\ data_type' = st.data_type
    /\ lit_buf' = st.lit_buf
    /\ dyn_ltree_' = st.dyn_ltree
    /\ dyn_dtree_' = st.dyn_dtree
    /\ bl_tree_' = st.bl_tree
    /\ opt_len_' = st.opt_len
    /\ static_len_' = st.static_len
    /\ matches_' = st.matches
    /\ SetSink(st.sink)

\* The last block of the stream has been emitted.
Finished == blk.kind # "none" /\ blk.last = 1

Init ==
    /\ IdleOther
    /\ \E level \in Levels : \E strategy \in Strategies :
          \E st \in {tr_init(level, strategy)} :
              /\ level_ = st.level
              /\ strategy_ = st.strategy
              /\ data_type = st.data_type
              /\ lit_buf = st.lit_buf
              /\ dyn_ltree_ = st.dyn_ltree
              /\ dyn_dtree_ = st.dyn_dtree
              /\ bl_tree_ = st.bl_tree
              /\ opt_len_ = st.opt_len
              /\ static_len_ = st.static_len
              /\ matches_ = st.matches
              /\ bi_buf = st.sink.bi_buf
              /\ bi_valid = st.sink.bi_valid
              /\ pending = st.sink.pending
    /\ sent = <<>>
    /\ nsend = 0
    /\ blk = NoBlock
    /\ nblocks = 0
    /\ IdleTree

\* The matcher calls _tr_tally; it flushes when _tr_tally returns true, and
\* it finds no match at level 0.  The runs explored end every block sent by
\* _tr_flush_block with a flush marker (_tr_align or an empty stored block)
\* before the next block is filled.
Tally(dist, lc) ==
    /\ ~Finished
    /\ level_ > 0
    /\ nblocks < MaxBlocks
    /\ blk.kind # "flush"
    /\ ~tr_tally_full(State, LitBufSize)
    /\ dist # 0 => matches_ < MaxMatches
    /\ SetState(tr_tally(State, dist, lc))
    /\ UNCHANGED <<othervars, sent, nsend, treevars, blk, nblocks>>

FlushBlock(buf_null, stored_len, last) ==
    /\ ~Finished
    /\ nblocks < MaxBlocks
    /\ blk.kind # "flush"
    /\ level_ = 0 => ~buf_null
    /\ \E r \in {tr_flush_block(State, Buf(buf_null, stored_len), stored_len, last)} :
           /\ SetState(r.st)
           /\ blk' = [kind |-> "flush", btype |-> r.btype, last |-> last,
                      buf_null |-> buf_null, stored_len |-> stored_len,
                      lits |-> lit_buf, start |-> Len(StreamBits(Sink)),
                      built |-> r.built, static_lenb |-> r.static_lenb,
                      dyn_lenb |-> r.dyn_lenb, opt_lenb |-> r.opt_lenb,
                      ltree |-> r.ltree, dtree |-> r.dtree, codes |-> r.codes,
                      sizes |-> r.sizes, in_ok |-> r.in_ok]
    /\ nblocks' = nblocks + 1
    /\ UNCHANGED <<othervars, sent, nsend, treevars>>

\* _tr_align(s), called between blocks.
Align ==
    /\ ~Finished
    /\ nblocks < MaxBlocks
    /\ lit_buf = <<>>
    /\ SetSink(tr_align(Sink))
    /\ blk' = [NoBlock EXCEPT !.kind = "align", !.btype = STATIC_TREES,
                              !.start = Len(StreamBits(Sink))]
    /\ nblocks' = nblocks + 1
    /\ UNCHANGED <<othervars, sent, nsend, treevars, level_, strategy_, data_type, lit_buf,
                   dyn_ltree_, dyn_dtree_, bl_tree_, opt_len_, static_len_, matches_>>

\* _tr_stored_block(s, NULL, 0, 0), called between blocks.
StoredBlock ==
    /\ ~Finished
    /\ nblocks < MaxBlocks
    /\ lit_buf = <<>>
    /\ SetSink(tr_stored_block(Sink, <<>>, 0, 0))
    /\ blk' = [NoBlock EXCEPT !.kind = "stored", !.btype = STORED_BLOCK,
                              !.start = Len(StreamBits(Sink))]
    /\ nblocks' = nblocks + 1
    /\ UNCHANGED <<othervars, sent, nsend, treevars, level_, strategy_, data_type, lit_buf,
                   dyn_ltree_, dyn_dtree_, bl_tree_, opt_len_, static_len_, matches_>>

\* _tr_flush_bits(s)
FlushBits ==
    /\ ~Finished
    /\ SetSink(tr_flush_bits(Sink))
    /\ UNCHANGED <<othervars, sent, nsend, treevars, blockvars>>

Next ==
    \/ \E in \in TallyInputs : Tally(in[1], in[2])
    \/ \E buf_null \in BOOLEAN : \E stored_len \in StoredLens : \E last \in {0, 1} :
          FlushBlock(buf_null, stored_len, last)
    \/ Align
    \/ StoredBlock
    \/ FlushBits

Spec == Init /\ [][Next]_vars

(***************************************************************************)
(* A reference decoder for one block of a DEFLATE stream (RFC 1951), used  *)
(* to state what an emitted block means.  bits is the stream as a sequence *)
(* of bits, pos the number of bits consumed so far.                        *)
(***************************************************************************)
\* The value of the n bits after pos, least significant bit first.
RECURSIVE InflateBits(_, _, _)
InflateBits(bits, pos, n) ==
    IF n = 0 THEN 0 ELSE bits[pos + 1] + 2 * InflateBits(bits, pos + 1, n - 1)

\* The value of the n bits after pos, most significant bit first (a Huffman code).
RECURSIVE InflateCode(_, _, _)
InflateCode(bits, pos, n) ==
    IF n = 0 THEN 0 ELSE 2 * InflateCode(bits, pos, n - 1) + bits[pos + n]

\* RFC 1951, 3.2.2: the code of each symbol from the code lengths lens, a
\* function from pairs <<length, code>> to the symbol.
RECURSIVE InflateFirst(_, _)
InflateFirst(lens, L) ==
    IF L <= 1 THEN 0
    ELSE (InflateFirst(lens, L - 1)
          + Cardinality({n \in DOMAIN lens : lens[n] = L - 1})) * 2

InflateTable(lens) ==
    LET used == {n \in DOMAIN lens : lens[n] # 0}
        first == Eager([L \in 1..15 |-> InflateFirst(lens, L)])
        code == Eager([n \in used |->
                         first[lens[n]]
                         + Cardinality({m \in used : m < n /\ lens[m] = lens[n]})])
    IN  Eager([p \in {<<lens[n], code[n]>> : n \in used} |->
                 CHOOSE n \in used : <<lens[n], code[n]>> = p])

\* The next symbol of the table, or ok = FALSE when no code matches.
InflateSymbol(table, bits, pos) ==
    LET fit == {L \in 1..15 : /\ pos + L <= Len(bits)
                              /\ <<L, InflateCode(bits, pos, L)>> \in DOMAIN table}
    IN  IF fit = {} THEN [ok |-> FALSE, sym |-> -1, pos |-> pos]
        ELSE LET L == CHOOSE x \in fit : \A y \in fit : x <= y
             IN  [ok |-> TRUE, sym |-> table[<<L, InflateCode(bits, pos, L)>>],
                  pos |-> pos + L]

\* RFC 1951, 3.2.5: base values and extra bits of the length codes 257..285
\* and of the distance codes 0..29.
InflateLengthBase ==
    <<3, 4, 5, 6, 7, 8, 9, 10, 11, 13, 15, 17, 19, 23, 27, 31, 35, 43, 51, 59,
      67, 83, 99, 115, 131, 163, 195, 227, 258>>
InflateLengthExtra ==
    <<0, 0, 0, 0, 0, 0, 0, 0, 1, 1, 1, 1, 2, 2, 2, 2, 3, 3, 3, 3,
      4, 4, 4, 4, 5, 5, 5, 5, 0>>
InflateDistBase ==
    <<1, 2, 3, 4, 5, 7, 9, 13, 17, 25, 33, 49, 65, 97, 129, 193, 257, 385, 513,
      769, 1025, 1537, 2049, 3073, 4097, 6145, 8193, 12289, 16385, 24577>>
InflateDistExtra ==
    <<0, 0, 0, 0, 1, 1, 2, 2, 3, 3, 4, 4, 5, 5, 6, 6, 7, 7, 8, 8,
      9, 9, 10, 10, 11, 11, 12, 12, 13, 13>>

\* RFC 1951, 3.2.6: the code lengths of the fixed Huffman codes.
InflateFixedLit ==
    InflateTable([n \in 0..287 |-> IF n <= 143 THEN 8 ELSE IF n <= 255 THEN 9
                                   ELSE IF n <= 279 THEN 7 ELSE 8])
InflateFixedDist == InflateTable([n \in 0..31 |-> 5])

\* RFC 1951, 3.2.7: the order in which the code length code lengths are sent.
InflateOrder == <<16, 17, 18, 0, 8, 7, 9, 6, 10, 5, 11, 4, 12, 3, 13, 2, 14, 1, 15>>

InflateFail(pos) == [ok |-> FALSE, pos |-> pos]

\* The compressed data of a block: literals as <<0, byte>>, matches as
\* <<distance, length - 3>>, up to the end-of-block symbol.
RECURSIVE InflateData(_, _, _, _, _)
InflateData(bits, pos, lit, dist, items) ==
    With(InflateSymbol(lit, bits, pos), LAMBDA l :
      IF ~l.ok \/ l.sym > 285 THEN InflateFail(pos)
      ELSE IF l.sym = 256 THEN [ok |-> TRUE, pos |-> l.pos, items |-> items]
      ELSE IF l.sym < 256
      THEN InflateData(bits, l.pos, lit, dist, Append(items, <<0, l.sym>>))
      ELSE
        LET lx == InflateLengthExtra[l.sym - 256]
        IN  IF l.pos + lx > Len(bits) THEN InflateFail(pos)
            ELSE
              With(InflateSymbol(dist, bits, l.pos + lx), LAMBDA d :
                IF ~d.ok \/ d.sym > 29 THEN InflateFail(pos)
                ELSE
                  LET dx == InflateDistExtra[d.sym + 1]
                  IN  IF d.pos + dx > Len(bits) THEN InflateFail(pos)
                      ELSE InflateData(
                             bits, d.pos + dx, lit, dist,
                             Append(items,
                                    <<InflateDistBase[d.sym + 1]
                                        + InflateBits(bits, d.pos, dx),
                                      InflateLengthBase[l.sym - 256]
                                        + InflateBits(bits, l.pos, lx) - 3>>))))

\* The n code lengths of a dynamic block, run-length decoded.
RECURSIVE InflateLengths(_, _, _, _, _)
InflateLengths(bits, pos, cl, n, lens) ==
    IF Len(lens) = n THEN [ok |-> TRUE, pos |-> pos, lens |-> lens]
    ELSE IF Len(lens) > n THEN InflateFail(pos)
    ELSE
      With(InflateSymbol(cl, bits, pos), LAMBDA c :
        IF ~c.ok THEN InflateFail(pos)
        ELSE IF c.sym < 16
        THEN InflateLengths(bits, c.pos, cl, n, Append(lens, c.sym))
        ELSE
          LET x == IF c.sym = 16 THEN 2 ELSE IF c.sym = 17 THEN 3 ELSE 7
              base == IF c.sym = 18 THEN 11 ELSE 3
          IN  IF c.pos + x > Len(bits) \/ (c.sym = 16 /\ lens = <<>>)
              THEN InflateFail(pos)
              ELSE InflateLengths(
                     bits, c.pos + x, cl, n,
                     lens \o [i \in 1..(base + InflateBits(bits, c.pos, x)) |->
                                IF c.sym = 16 THEN lens[Len(lens)] ELSE 0]))

\* A sequence of code lengths as a function of the symbol, from 0.
InflateLens(seq) == [n \in 0..(Len(seq) - 1) |-> seq[n + 1]]

\* A block with dynamic Huffman codes, after its three header bits.
InflateDynamic(bits, pos) ==
    IF pos + 14 > Len(bits) THEN InflateFail(pos)
    ELSE
      LET hlit == InflateBits(bits, pos, 5) + 257
          hdist == InflateBits(bits, pos + 5, 5) + 1
          hclen == InflateBits(bits, pos + 10, 4) + 4
      IN  IF pos + 14 + 3 * hclen > Len(bits) \/ hlit > 286 \/ hdist > 30
          THEN InflateFail(pos)
          ELSE
            With(InflateTable([n \in 0..18 |->
                    IF \E i \in 1..hclen : InflateOrder[i] = n
                    THEN InflateBits(bits, pos + 14 + 3 * ((CHOOSE i \in 1..hclen :
                                        InflateOrder[i] = n) - 1), 3)
                    ELSE 0]), LAMBDA cl :
            With(InflateLengths(bits, pos + 14 + 3 * hclen, cl, hlit + hdist, <<>>),
                 LAMBDA r :
                 IF ~r.ok THEN r
                 ELSE InflateData(bits, r.pos,
                                  InflateTable(InflateLens(SubSeq(r.lens, 1, hlit))),
                                  InflateTable(InflateLens(
                                     SubSeq(r.lens, hlit + 1, hlit + hdist))),
                                  <<>>)))

\* A stored block, after its three header bits.
InflateStored(bits, pos) ==
    LET at == 8 * ((pos + 7) \div 8)
    IN  IF at + 32 > Len(bits) THEN InflateFail(pos)
        ELSE
          LET len == InflateBits(bits, at, 16)
              nlen == InflateBits(bits, at + 16, 16)
          IN  IF len + nlen # 65535 \/ at + 32 + 8 * len > Len(bits)
              THEN InflateFail(pos)
              ELSE [ok |-> TRUE, pos |-> at + 32 + 8 * len,
                    bytes |-> [i \in 1..len |->
                                 InflateBits(bits, at + 32 + 8 * (i - 1), 8)]]

\* The block that starts at pos: BFINAL, BTYPE and what the block holds.
Inflate(bits, pos) ==
    IF pos + 3 > Len(bits) THEN InflateFail(pos)
    ELSE
      LET btype == InflateBits(bits, pos + 1, 2)
      IN  (IF btype = 0 THEN InflateStored(bits, pos + 3)
           ELSE IF btype = 1
           THEN InflateData(bits, pos + 3, InflateFixedLit, InflateFixedDist, <<>>)
           ELSE IF btype = 2 THEN InflateDynamic(bits, pos + 3)
           ELSE InflateFail(pos))
          @@ [last |-> bits[pos + 1], btype |-> btype, items |-> <<>>, bytes |-> <<>>]

\* A block sent by _tr_flush_block is the last block emitted.
Flushed == blk.kind = "flush"

\* The candidate size in bytes of the encoding btype of the last block, the
\* stored block counted with its five bytes of header.
CandidateSize(btype) ==
    IF btype = STORED_BLOCK THEN blk.stored_len + 5
    ELSE IF btype = STATIC_TREES THEN blk.static_lenb
    ELSE blk.dyn_lenb

\* The smaller of the two Huffman sizes of the last block.
HuffmanSize ==
    IF blk.static_lenb <= blk.dyn_lenb THEN blk.static_lenb ELSE blk.dyn_lenb

(***************************************************************************)
(* C1: decoding an emitted block with a conformant decoder gives back what *)
(* was emitted: the buffered literals and matches in order for a static or *)
(* a dynamic block, the bytes of the input block for a stored block, with  *)
(* the block type and the last-block bit of the call; the block ends where *)
(* the output ends, up to the zero padding of a last block.                *)
(***************************************************************************)
C1_BlockRoundTrip ==
    blk.kind # "none" =>
        \E bits \in {StreamBits(Sink)} : \E d \in {Inflate(bits, blk.start)} :
            /\ d.ok
            /\ d.last = blk.last
            /\ d.btype = blk.btype
            /\ d.btype = STORED_BLOCK => d.bytes = SubSeq(BufBytes(blk.stored_len),
                                                          1, blk.stored_len)
            /\ d.btype # STORED_BLOCK => d.items = blk.lits
            /\ IF blk.last = 0 THEN d.pos = Len(bits)
               ELSE /\ Len(bits) % 8 = 0
                    /\ d.pos <= Len(bits)
                    /\ Len(bits) - d.pos < 8
                    /\ \A i \in (d.pos + 1)..Len(bits) : bits[i] = 0

\* A last block with dynamic trees that holds a match and starts inside a byte.
C1_Witness ==
    /\ Flushed
    /\ blk.btype = DYN_TREES
    /\ blk.last = 1
    /\ blk.start % 8 # 0
    /\ \E i \in 1..Len(blk.lits) : blk.lits[i][1] # 0

(***************************************************************************)
(* C7 as stated: with level > 0, a strategy other than fixed and buf       *)
(* non-null, the block emitted is the one of smallest candidate size among *)
(* stored_len + 5, the static size and the dynamic size.                   *)
(***************************************************************************)
C7_SmallestOfThree ==
    (Flushed /\ blk.built /\ strategy_ # Z_FIXED /\ ~blk.buf_null) =>
        /\ CandidateSize(blk.btype) <= CandidateSize(STORED_BLOCK)
        /\ CandidateSize(blk.btype) <= CandidateSize(STATIC_TREES)
        /\ CandidateSize(blk.btype) <= CandidateSize(DYN_TREES)

(***************************************************************************)
(* C7 amended: with level > 0, a strategy other than fixed and buf         *)
(* non-null, a stored block is emitted exactly when stored_len + 4 is at   *)
(* most the smaller Huffman size, and otherwise the Huffman encoding of    *)
(* smaller size, the static one on a tie.                                  *)
(***************************************************************************)
C7_StoredAtPlusFour ==
    (Flushed /\ blk.built /\ strategy_ # Z_FIXED /\ ~blk.buf_null) =>
        /\ blk.btype = STORED_BLOCK <=> blk.stored_len + 4 <= HuffmanSize
        /\ blk.btype # STORED_BLOCK => CandidateSize(blk.btype) = HuffmanSize
        /\ blk.btype = DYN_TREES => blk.dyn_lenb < blk.static_lenb

\* A stored block emitted with stored_len + 4 equal to the smaller Huffman size.
C7_Witness ==
    /\ Flushed
    /\ blk.built
    /\ strategy_ # Z_FIXED
    /\ ~blk.buf_null
    /\ blk.btype = STORED_BLOCK
    /\ blk.stored_len + 4 = HuffmanSize

(***************************************************************************)
(* C8: a block that is not stored is static whenever the static size is at *)
(* most the dynamic size, and dynamic only when the dynamic size is        *)
(* strictly smaller and the strategy is not fixed; no stored block is      *)
(* emitted when buf is null.                                               *)
(***************************************************************************)
C8_StaticOnTies ==
    Flushed =>
        /\ (blk.btype # STORED_BLOCK /\ blk.static_lenb <= blk.dyn_lenb)
              => blk.btype = STATIC_TREES
        /\ blk.btype = DYN_TREES
              => (blk.dyn_lenb < blk.static_lenb /\ strategy_ # Z_FIXED)
        /\ blk.buf_null => blk.btype # STORED_BLOCK

\* A static block emitted on a tie, with buf null and a stored block that
\* would have fit.
C8_Witness ==
    /\ Flushed
    /\ blk.built
    /\ blk.btype = STATIC_TREES
    /\ blk.static_lenb = blk.dyn_lenb
    /\ blk.buf_null
    /\ blk.stored_len + 4 <= blk.opt_lenb

(***************************************************************************)
(* C9 as stated: with the strategy fixed and level > 0 every block emitted *)
(* by _tr_flush_block is a static block.                                   *)
(***************************************************************************)
C9_FixedAlwaysStatic ==
    (Flushed /\ blk.built /\ strategy_ = Z_FIXED) => blk.btype = STATIC_TREES

(***************************************************************************)
(* C9 amended: with the strategy fixed and level > 0 no block emitted by   *)
(* _tr_flush_block is dynamic; the block is stored when buf is non-null    *)
(* and stored_len + 4 is at most the smaller Huffman size, static          *)
(* otherwise.                                                              *)
(***************************************************************************)
C9_FixedNeverDynamic ==
    (Flushed /\ blk.built /\ strategy_ = Z_FIXED) =>
        /\ blk.btype # DYN_TREES
        /\ blk.btype = STORED_BLOCK
              <=> (~blk.buf_null /\ blk.stored_len + 4 <= HuffmanSize)

\* A static block emitted although the dynamic encoding is smaller.
C9_Witness ==
    /\ Flushed
    /\ blk.built
    /\ strategy_ = Z_FIXED
    /\ blk.btype = STATIC_TREES
    /\ blk.dyn_lenb < blk.static_lenb

(***************************************************************************)
(* C10: at level 0 every block emitted by _tr_flush_block is a stored      *)
(* block and no Huffman tree is built.                                     *)
(***************************************************************************)
C10_LevelZeroStored ==
    (Flushed /\ level_ = 0) => (blk.btype = STORED_BLOCK /\ ~blk.built)

\* A stored block of MaxStored bytes emitted at level 0 after a flush marker.
C10_Witness ==
    /\ Flushed
    /\ level_ = 0
    /\ blk.btype = STORED_BLOCK
    /\ blk.stored_len = MaxStored
    /\ blk.start > 0

(***************************************************************************)
(* C11: every block starts with the three header bits (BTYPE << 1) | last, *)
(* sent LSB first, with last the argument of the call (0 for the blocks of *)
(* _tr_align and of an empty stored block); after a call with last = 1 the *)
(* accumulator is empty (bi_valid = 0, bi_buf = 0) and the output is a     *)
(* whole number of bytes.                                                  *)
(***************************************************************************)
C11_HeaderAndAlignment ==
    blk.kind # "none" =>
        \E bits \in {StreamBits(Sink)} :
            /\ Len(bits) >= blk.start + 3
            /\ bits[blk.start + 1] = blk.last
            /\ bits[blk.start + 2] + 2 * bits[blk.start + 3] = blk.btype
            /\ blk.last = 1 => /\ bi_valid = 0
                               /\ bi_buf = 0
                               /\ Len(bits) = 8 * Len(pending)

\* A last static block with literals that starts inside a byte, after a block
\* that is not marked last.
C11_Witness ==
    /\ Flushed
    /\ blk.last = 1
    /\ blk.btype = STATIC_TREES
    /\ blk.lits # <<>>
    /\ blk.start % 8 # 0
    /\ nblocks = 2

(***************************************************************************)
(* Specification of _tr_stored_block alone: one call, at every position of *)
(* the bit accumulator, with blocks of up to MaxCopy bytes.                *)
(***************************************************************************)
\* The accumulator before the call: bi_valid bits, all zero, all one or
\* alternating; no bit is set above bi_valid.
PriorBits(valid) == {0, Pow2(valid) - 1, 43690 % Pow2(valid)}

\* The bytes already pending before the call.
PriorPending == {<<>>, <<171>>}

\* The largest stored block: LEN is a 16-bit field.
MaxLen16 == 65535

\* The lengths of the stored blocks: empty, one byte, around the length from
\* which the high byte of LEN is not zero, and the largest.
CopyLens == {0, 1, 255, 256, MaxCopy, MaxLen16}

InitStored ==
    /\ IdleOther
    /\ bi_valid \in 0..Buf_size
    /\ bi_buf \in PriorBits(bi_valid)
    /\ pending \in PriorPending
    /\ sent = StreamBits(Sink)
    /\ nsend = 0
    /\ IdleTree
    /\ IdleBlock

\* _tr_stored_block(s, buf, stored_len, last); the blocks longer than MaxCopy
\* are sent on an empty sink.
StoredAt(stored_len, last) ==
    /\ blk.kind = "none"
    /\ stored_len > MaxCopy => Sink = EmptySink
    /\ SetSink(tr_stored_block(Sink, BufBytes(stored_len), stored_len, last))
    /\ blk' = [NoBlock EXCEPT !.kind = "stored", !.btype = STORED_BLOCK,
                              !.last = last, !.buf_null = FALSE,
                              !.stored_len = stored_len,
                              !.start = Len(StreamBits(Sink))]
    /\ UNCHANGED <<othervars, sent, nsend, treevars, level_, strategy_, data_type, lit_buf,
                   dyn_ltree_, dyn_dtree_, bl_tree_, opt_len_, static_len_,
                   matches_, nblocks>>

NextStored ==
    \E stored_len \in CopyLens : \E last \in {0, 1} : StoredAt(stored_len, last)

SpecStored == InitStored /\ [][NextStored]_vars

\* LEN and NLEN as the four bytes of two little-endian 16-bit values.
LenBytes(len) ==
    <<len % 256, len \div 256, (65535 - len) % 256, (65535 - len) \div 256>>

(***************************************************************************)
(* C12: _tr_stored_block adds to the bits written before it the three      *)
(* header bits (last, then 00), zero bits up to the byte boundary, LEN =   *)
(* stored_len and NLEN = its 16-bit one's complement as little-endian      *)
(* 16-bit values, and then exactly the stored_len bytes of buf in order,   *)
(* and leaves the accumulator empty.                                       *)
(***************************************************************************)
C12_StoredBlockLayout ==
    blk.kind = "stored" =>
        \E k \in {(Len(sent) + 3 + 7) \div 8} :
            /\ Len(pending) = k + 4 + blk.stored_len
            /\ BytesToBits(SubSeq(pending, 1, k))
                  = sent \o <<blk.last, 0, 0>> \o PadBits(Len(sent) + 3)
            /\ SubSeq(pending, k + 1, k + 4) = LenBytes(blk.stored_len)
            /\ SubSeq(pending, k + 5, Len(pending)) = BufBytes(blk.stored_len)
            /\ bi_valid = 0
            /\ bi_buf = 0

\* A block of more than 255 bytes, sent with sixteen bits in the accumulator.
C12_Witness ==
    /\ blk.kind = "stored"
    /\ blk.stored_len = MaxCopy
    /\ blk.start % 16 = 0
    /\ blk.start >= Buf_size
    /\ blk.last = 1
    /\ pending[Len(pending) - blk.stored_len - 2] = 1

(***************************************************************************)
(* C13: an empty stored block with last = 0, sent at any position of the   *)
(* accumulator, leaves the output on a byte boundary and ending with the   *)
(* four bytes 00 00 FF FF.                                                 *)
(***************************************************************************)
C13_EmptyStoredMarker ==
    (blk.kind = "stored" /\ blk.stored_len = 0 /\ blk.last = 0) =>
        /\ bi_valid = 0
        /\ bi_buf = 0
        /\ Len(pending) >= 4
        /\ SubSeq(pending, Len(pending) - 3, Len(pending)) = <<0, 0, 255, 255>>

\* The marker sent with six bits in the accumulator: its header ends in the
\* next byte.
C13_Witness ==
    /\ blk.kind = "stored"
    /\ blk.stored_len = 0
    /\ blk.last = 0
    /\ blk.start % 8 = 6
    /\ Len(pending) = blk.start \div 8 + 6

\* The bits of the code of symbol c in tree, in the order they are sent.
CodeBits(tree, c) == LowBits(tree.fc[c], tree.dl[c])

\* The bits of one entry <<dist, lc>> of the literal buffer: a literal's code,
\* or a match's length code, length extra bits, distance code and distance
\* extra bits.
EntryBits(e, ltree, dtree) ==
    IF e[1] = 0 THEN CodeBits(ltree, e[2])
    ELSE LET lcode == length_code[e[2]]
             dist == e[1] - 1
             dcode == d_code(dist)
         IN  CodeBits(ltree, lcode + literals + 1)
             \o LowBits(e[2] - base_length[lcode + 1], extra_lbits[lcode + 1])
             \o CodeBits(dtree, dcode)
             \o LowBits(dist - base_dist[dcode + 1], extra_dbits[dcode + 1])

\* The entries of lits from the i-th on, in order.
RECURSIVE EntriesBits(_, _, _, _)
EntriesBits(lits, i, ltree, dtree) ==
    IF i > Len(lits) THEN <<>>
    ELSE EntryBits(lits[i], ltree, dtree) \o EntriesBits(lits, i + 1, ltree, dtree)

\* The trees the last block was sent with.
SentLTree == IF blk.btype = STATIC_TREES THEN static_ltree ELSE blk.ltree
SentDTree == IF blk.btype = STATIC_TREES THEN static_dtree ELSE blk.dtree

(***************************************************************************)
(* C14: a static or dynamic block ends with the codes of the entries of    *)
(* the literal buffer in the order they were tallied, each match as length *)
(* code, length extra bits, distance code, distance extra bits, and then   *)
(* the code of END_BLOCK as the last code of the block, also when the      *)
(* buffer is empty; in a static block they follow the header directly, and *)
(* only the zero padding of a last block comes after them.                 *)
(***************************************************************************)
C14_CodesInOrderThenEnd ==
    (Flushed /\ blk.btype # STORED_BLOCK) =>
        \E bits \in {StreamBits(Sink)} :
        \E codes \in {EntriesBits(blk.lits, 1, SentLTree, SentDTree)
                      \o CodeBits(SentLTree, END_BLOCK)} :
        \E pad \in 0..7 :
            /\ blk.last = 0 => pad = 0
            /\ Len(bits) - pad - Len(codes) >= blk.start + 3
            /\ blk.btype = STATIC_TREES
                  => Len(bits) - pad - Len(codes) = blk.start + 3
            /\ SubSeq(bits, Len(bits) - pad - Len(codes) + 1, Len(bits) - pad) = codes
            /\ \A i \in (Len(bits) - pad + 1)..Len(bits) : bits[i] = 0
            /\ Len(CodeBits(SentLTree, END_BLOCK)) > 0

\* A block whose second entry is a match, between literals.
C14_Witness ==
    /\ Flushed
    /\ blk.btype # STORED_BLOCK
    /\ Len(blk.lits) >= 3
    /\ blk.lits[2][1] # 0

(***************************************************************************)
(* C15: the frequency of END_BLOCK is 1 in every state, whatever was       *)
(* tallied and flushed before, so that every literal/length tree built by  *)
(* _tr_flush_block gives END_BLOCK a code of nonzero length.               *)
(***************************************************************************)
C15_EndBlockHasCode ==
    /\ dyn_ltree_[END_BLOCK] = 1
    /\ (Flushed /\ blk.built) => blk.ltree.dl[END_BLOCK] > 0

\* A tree built from a full literal buffer, in which END_BLOCK is rarer than
\* a literal and its code longer.
C15_Witness ==
    /\ Flushed
    /\ blk.built
    /\ Len(blk.lits) = LitBufSize - 1
    /\ blk.ltree.dl[END_BLOCK] >= 2
    /\ \E n \in 0..(literals - 1) :
          blk.ltree.dl[n] > 0 /\ blk.ltree.dl[n] < blk.ltree.dl[END_BLOCK]

(***************************************************************************)
(* C16: with the block flushed whenever _tr_tally has returned true, the   *)
(* number of entries of the literal buffer (last_lit) stays below          *)
(* lit_bufsize in every state, and the value _tr_tally returns is true     *)
(* exactly in the states where last_lit = lit_bufsize - 1.                 *)
(***************************************************************************)
C16_BufferBelowCapacity ==
    /\ Len(lit_buf) < LitBufSize
    /\ tr_tally_full(State, LitBufSize) <=> Len(lit_buf) = LitBufSize - 1

\* The buffer one short of its capacity, a match among its entries: the call
\* that filled it returned true.
C16_Witness ==
    /\ Len(lit_buf) = LitBufSize - 1
    /\ matches_ = 1
    /\ tr_tally_full(State, LitBufSize)

(***************************************************************************)
(* C17: a call _tr_tally(dist, lc) appends the entry (dist, lc) to the     *)
(* literal buffer and leaves the earlier entries as they were; with        *)
(* dist = 0 it adds one to the frequency of the literal lc and to nothing  *)
(* else, with dist > 0 it adds one to the frequency of the length code     *)
(* length_code[lc] + 257 and of the distance code d_code(dist - 1) and to  *)
(* nothing else; the bit-length frequencies and the bit sink do not change.*)
(***************************************************************************)
C17_TallyFrame ==
    [][Len(lit_buf') = Len(lit_buf) + 1 =>
          \E e \in {lit_buf'[Len(lit_buf')]} :
              /\ e \in TallyInputs
              /\ SubSeq(lit_buf', 1, Len(lit_buf)) = lit_buf
              /\ dyn_ltree_' = [dyn_ltree_ EXCEPT
                                  ![IF e[1] = 0 THEN e[2]
                                    ELSE length_code[e[2]] + 257] = @ + 1]
              /\ dyn_dtree_' = IF e[1] = 0 THEN dyn_dtree_
                               ELSE [dyn_dtree_ EXCEPT ![d_code(e[1] - 1)] = @ + 1]
              /\ bl_tree_' = bl_tree_
              /\ bi_buf' = bi_buf
              /\ bi_valid' = bi_valid
              /\ pending' = pending]_vars

\* Literals and a match were tallied after bits were written: the frequencies
\* count them.
C17_Witness ==
    /\ Len(lit_buf) >= 3
    /\ matches_ = 1
    /\ pending # <<>>
    /\ dyn_ltree_[200] = Len(lit_buf) - 1
    /\ dyn_ltree_[length_code[10] + 257] = 1
    /\ dyn_dtree_[d_code(29999)] = 1

(***************************************************************************)
(* C18: on return from _tr_flush_block, whatever the block type and the    *)
(* level, the literal buffer is empty (last_lit = 0), matches = 0,         *)
(* opt_len = static_len = 0, and every literal/length, distance and        *)
(* bit-length frequency is 0, except that of END_BLOCK, which is 1.        *)
(***************************************************************************)
C18_StatisticsReset ==
    Flushed =>
        /\ lit_buf = <<>>
        /\ matches_ = 0
        /\ opt_len_ = 0
        /\ static_len_ = 0
        /\ DOMAIN dyn_ltree_ = 0..285
        /\ \A n \in 0..285 : dyn_ltree_[n] = IF n = 256 THEN 1 ELSE 0
        /\ DOMAIN dyn_dtree_ = 0..29
        /\ \A n \in 0..29 : dyn_dtree_[n] = 0
        /\ DOMAIN bl_tree_ = 0..18
        /\ \A n \in 0..18 : bl_tree_[n] = 0

\* A stored block was emitted for a buffer that held literals and a match,
\* after the trees were built from their frequencies.
C18_Witness ==
    /\ Flushed
    /\ blk.built
    /\ blk.btype = STORED_BLOCK
    /\ Len(blk.lits) >= 2
    /\ \E i \in 1..Len(blk.lits) : blk.lits[i][1] # 0
    /\ blk.opt_lenb > 0

(***************************************************************************)
(* Specification of detect_data_type alone: one call on the literal        *)
(* frequencies left by tallying a set of bytes.                            *)
(***************************************************************************)
\* The bytes at the ends of the ranges detect_data_type tells apart.
TypeBytes == {0, 6, 7, 8, 9, 10, 11, 12, 13, 14, 25, 26, 27, 28, 31, 32, 255}

\* The sets of bytes tallied: up to MaxMarked of TypeBytes, or any one byte.
ByteSets ==
    {S \in SUBSET TypeBytes : Cardinality(S) <= MaxMarked}
        \cup {{b} : b \in 0..(literals - 1)}

\* The frequencies after init_block and one _tr_tally(0, b) for each b of S.
FreqOf(S) ==
    Eager([n \in 0..(lCodes - 1) |-> IF n \in S \/ n = END_BLOCK THEN 1 ELSE 0])

InitType ==
    /\ IdleOther
    /\ \E S \in ByteSets : dyn_ltree_ = FreqOf(S)
    /\ data_type = Z_UNKNOWN
    /\ level_ = 6
    /\ strategy_ = Z_DEFAULT_STRATEGY
    /\ lit_buf = <<>>
    /\ dyn_dtree_ = <<>>
    /\ bl_tree_ = <<>>
    /\ opt_len_ = 0
    /\ static_len_ = 0
    /\ matches_ = 0
    /\ blk = NoBlock
    /\ nblocks = 0
    /\ IdleSink
    /\ IdleTree

\* if (s->data_type == Z_UNKNOWN) s->data_type = detect_data_type(s);
DetectType ==
    /\ data_type = Z_UNKNOWN
    /\ data_type' = detect_data_type(dyn_ltree_)
    /\ UNCHANGED <<othervars, bitvars, treevars, level_, strategy_, lit_buf, dyn_ltree_,
                   dyn_dtree_, bl_tree_, opt_len_, static_len_, matches_, blk,
                   nblocks>>

NextType == DetectType

SpecType == InitType /\ [][NextType]_vars

\* The three lists of bytes.
BlackList == (0..6) \cup (14..25) \cup (28..31)
WhiteList == {9, 10, 13} \cup (32..255)
GrayList == {7, 8, 11, 12, 26, 27}

(***************************************************************************)
(* C19: detect_data_type returns TEXT exactly when no black-listed byte    *)
(* has a nonzero frequency and some white-listed byte has one, and BINARY  *)
(* otherwise, also for an empty block and for gray-listed bytes only;      *)
(* making the frequency of a gray-listed byte zero or nonzero never        *)
(* changes the result.                                                     *)
(***************************************************************************)
C19_TextIffWhiteAndNoBlack ==
    data_type # Z_UNKNOWN =>
        /\ data_type \in {Z_TEXT, Z_BINARY}
        /\ data_type = Z_TEXT <=> /\ \A n \in BlackList : dyn_ltree_[n] = 0
                                  /\ \E n \in WhiteList : dyn_ltree_[n] # 0
        /\ \A g \in GrayList : \A v \in {0, 1, 65535} :
              detect_data_type([dyn_ltree_ EXCEPT ![g] = v]) = data_type

\* TEXT for a block with two gray-listed bytes and a tab.
C19_Witness ==
    /\ data_type = Z_TEXT
    /\ dyn_ltree_[7] # 0
    /\ dyn_ltree_[27] # 0
    /\ dyn_ltree_[9] # 0

\* The values of the data-type hint.
DataTypes == {Z_BINARY, Z_TEXT, Z_UNKNOWN}

\* The encoder state that differs from the current one in data_type only.
Twin(d) == [State EXCEPT !.data_type = d]

\* An encoder state without its data-type hint.
Hidden(st) == [st EXCEPT !.data_type = Z_UNKNOWN]

\* What _tr_flush_block leaves in data_type when it was d at level.
HintAfterFlush(d, level, fc) ==
    IF d = Z_UNKNOWN /\ level > 0
    THEN (IF (\A n \in BlackList : fc[n] = 0) /\ (\E n \in WhiteList : fc[n] # 0)
          THEN Z_TEXT ELSE Z_BINARY)
    ELSE d

(***************************************************************************)
(* C20: the data-type hint does not alter the bitstream.  At every step of *)
(* a run, the same call made on the state that differs in data_type only   *)
(* (unknown, text or binary) leaves the same pending bytes, the same bit   *)
(* accumulator and the same state apart from data_type, and chooses the    *)
(* same block type; by induction two such encoders driven by the same      *)
(* calls agree at every step.  _tr_flush_block writes data_type only when  *)
(* it was unknown and level > 0, and no other call writes it.              *)
(***************************************************************************)
C20_HintDoesNotAlterBits ==
    [][IF blk'.kind = "flush" /\ nblocks' = nblocks + 1
       THEN /\ data_type' = HintAfterFlush(data_type, level_, dyn_ltree_)
            /\ \A d \in DataTypes \ {data_type} :
                  \E r \in {tr_flush_block(Twin(d),
                                           Buf(blk'.buf_null, blk'.stored_len),
                                           blk'.stored_len, blk'.last)} :
                      /\ Hidden(r.st) = Hidden(State')
                      /\ r.st.sink = Sink'
                      /\ r.btype = blk'.btype
                      /\ r.st.data_type = HintAfterFlush(d, level_, dyn_ltree_)
       ELSE IF Len(lit_buf') = Len(lit_buf) + 1
       THEN /\ data_type' = data_type
            /\ \A d \in DataTypes \ {data_type} :
                  \E e \in {lit_buf'[Len(lit_buf')]} :
                  \E st \in {tr_tally(Twin(d), e[1], e[2])} :
                      /\ Hidden(st) = Hidden(State')
                      /\ st.data_type = d
       ELSE data_type' = data_type]_vars

\* A dynamic block was emitted at level > 0 and the hint, unknown before,
\* became text; a flush marker followed.
C20_Witness ==
    /\ blk.kind \in {"align", "stored"}
    /\ nblocks = 2
    /\ level_ > 0
    /\ data_type = Z_TEXT
    /\ Len(pending) > 10

\* The symbols of the built tree that have a code.
Coded21 == {n \in DOMAIN t_out.len : t_out.len[n] # 0}

(***************************************************************************)
(* C21: after build_tree on frequencies with fewer than two nonzero        *)
(* entries, exactly two symbols have a code, both of length 1, the symbol  *)
(* of nonzero frequency (if there is one) among them, and max_code >= 1.   *)
(***************************************************************************)
C21_AtLeastTwoCodes ==
    (t_out.built /\ Len(NonZero(t_freq)) < 2) =>
        /\ Cardinality(Coded21) = 2
        /\ \A n \in Coded21 : t_out.len[n] = 1
        /\ \A i \in 1..Len(t_freq) :
              t_freq[i] # 0 => SymAt(t_desc, i - 1) \in Coded21
        /\ t_out.max_code >= 1
        /\ \A n \in Coded21 : n <= t_out.max_code

\* The distance tree of a block without matches: codes for the symbols 0 and 1.
C21_Witness ==
    /\ t_out.built
    /\ t_desc = "d"
    /\ NonZero(t_freq) = <<>>
    /\ Len(t_freq) >= 2
    /\ Coded21 = {0, 1}


(***************************************************************************)
(* C22: the counts in the header of a dynamic block.                       *)
(***************************************************************************)
\* The header of the dynamic block that starts after bit start of bits: the
\* three counts and the 3-bit lengths that follow them.
DynHeader(bits, start, blcodes) ==
    [hlit |-> InflateBits(bits, start + 3, 5),
     hdist |-> InflateBits(bits, start + 8, 5),
     hclen |-> InflateBits(bits, start + 13, 4),
     lens |-> [rank \in 1..blcodes |->
                   InflateBits(bits, start + 17 + 3 * (rank - 1), 3)]]

\* C22: for every dynamic block send_all_trees is called with
\* 257 <= lcodes <= 286, 1 <= dcodes <= 30 and 4 <= blcodes <= 19, every
\* bit-length code length is at most 7, and the header of the block holds
\* lcodes - 257 and dcodes - 1 in 5 bits each, blcodes - 4 in 4 bits and the
\* first blcodes lengths, in bl_order, in 3 bits each.
C22_DynamicHeaderCounts ==
    (Flushed /\ blk.btype = DYN_TREES) =>
        /\ blk.codes.lcodes \in 257..lCodes
        /\ blk.codes.dcodes \in 1..dCodes
        /\ blk.codes.blcodes \in 4..blCodes
        /\ \A n \in 0..(blCodes - 1) : blk.codes.bl_dl[n] <= maxBlBits
        /\ \E h \in {DynHeader(StreamBits(Sink), blk.start, blk.codes.blcodes)} :
              /\ h.hlit = blk.codes.lcodes - 257
              /\ h.hdist = blk.codes.dcodes - 1
              /\ h.hclen = blk.codes.blcodes - 4
              /\ \A rank \in 1..blk.codes.blcodes :
                    h.lens[rank] = blk.codes.bl_dl[bl_order[rank]]

\* A dynamic block whose distance tree reaches the last distance code while its
\* literal tree stops short of the last length code.
C22_Witness ==
    /\ Flushed
    /\ blk.btype = DYN_TREES
    /\ blk.codes.dcodes = dCodes
    /\ blk.codes.lcodes > 257
    /\ blk.codes.lcodes < lCodes
    /\ blk.codes.blcodes > 4
    /\ \E n \in 0..(blCodes - 1) : blk.codes.bl_dl[n] > 2


(***************************************************************************)
(* Specification of send_tree alone: a code-length array made of up to     *)
(* MaxRuns runs is scanned (scan_tree and build_tree of the bit length     *)
(* tree, as build_bl_tree does) and sent into an empty bit sink.           *)
(***************************************************************************)
\* The code lengths of the runs and how often a run repeats its length:
\* around the thresholds 3, 4, 7, 11 and 138 of the three repeat codes.
RunLens == {0, 4, 5}
RunCounts == {1, 2, 3, 4, 7, 11, 139}

\* tree[0 .. max_code].dl for the runs r, a sequence of <<length, count>>.
RECURSIVE RunArray(_, _)
RunArray(r, i) ==
    IF i > Len(r) THEN <<>>
    ELSE [k \in 1..r[i][2] |-> r[i][1]] \o RunArray(r, i + 1)

NoSend == [done |-> FALSE]

InitSend ==
    /\ \E n \in 1..MaxRuns : \E r \in [1..n -> RunLens \X RunCounts] :
         \E a \in {RunArray(r, 1)} :
            s_tree = [dl |-> [k \in 0..Len(a) |-> IF k < Len(a) THEN a[k + 1] ELSE 0],
                      max_code |-> Len(a) - 1, scanned |-> FALSE]
    /\ s_bl = NoTree
    /\ s_out = NoSend
    /\ IdlePtr
    /\ IdleRead
    /\ IdleSink
    /\ IdleTree
    /\ IdleBlock

\* scan_tree(s, tree, max_code) and build_tree(s, &bl_desc_) of build_bl_tree.
ScanTree ==
    /\ ~s_tree.scanned
    /\ \E sc \in {scan_tree([n \in 0..(blCodes - 1) |-> 0], s_tree, s_tree.max_code)} :
          /\ s_tree' = [sc.tree EXCEPT !.scanned = TRUE]
          /\ s_bl' = [built |-> TRUE, tree |-> build_tree(sc.fc, bl_desc, 0, 0)]
    /\ UNCHANGED <<s_out, ptrvars, readvars, bitvars, treevars, blockvars>>

\* send_tree(s, tree, max_code) of send_all_trees.
SendTree ==
    /\ s_bl.built
    /\ ~s_out.done
    /\ s_out' = [done |-> TRUE,
                 sink |-> send_tree(EmptySink, s_tree, s_bl.tree, s_tree.max_code)]
    /\ UNCHANGED <<s_tree, s_bl, ptrvars, readvars, bitvars, treevars, blockvars>>

NextSend == ScanTree \/ SendTree

SpecSend == InitSend /\ [][NextSend]_vars

\* The symbols of the bit length alphabet in bits from pos on, read with the
\* codes of table (RFC 1951, 3.2.7): lens are the code lengths they stand for,
\* syms the symbols as <<symbol, count, length repeated>>.
RECURSIVE SentLengths(_, _, _, _, _)
SentLengths(table, bits, pos, lens, syms) ==
    IF pos = Len(bits) THEN [ok |-> TRUE, lens |-> lens, syms |-> syms]
    ELSE LET r == InflateSymbol(table, bits, pos)
             extra == IF r.sym = REP_3_6 THEN 2
                      ELSE IF r.sym = REPZ_3_10 THEN 3 ELSE 7
             base == IF r.sym = REPZ_11_138 THEN 11 ELSE 3
             prev == IF lens = <<>> THEN -1 ELSE lens[Len(lens)]
             cnt == base + InflateBits(bits, r.pos, extra)
             len == IF r.sym = REP_3_6 THEN prev ELSE 0
         IN  IF ~r.ok THEN [ok |-> FALSE, lens |-> lens, syms |-> syms]
             ELSE IF r.sym < REP_3_6
             THEN SentLengths(table, bits, r.pos, Append(lens, r.sym),
                              Append(syms, <<r.sym, 1, r.sym>>))
             ELSE IF r.pos + extra > Len(bits) \/ (r.sym = REP_3_6 /\ prev < 0)
             THEN [ok |-> FALSE, lens |-> lens, syms |-> syms]
             ELSE SentLengths(table, bits, r.pos + extra,
                              lens \o [k \in 1..cnt |-> len],
                              Append(syms, <<r.sym, cnt, len>>))

\* What send_tree sent, read back with the codes of the bit length tree.
Sent23 ==
    SentLengths(InflateTable([n \in 0..(blCodes - 1) |-> s_bl.tree.dl[n]]),
                StreamBits(s_out.sink), 0, <<>>, <<>>)

\* C23: the symbols send_tree sends decode to exactly tree[0..max_code].dl:
\* max_code + 1 lengths; symbol 16 comes only after a length was sent for the
\* tree, repeats a nonzero length and does so 3..6 times; symbol 17 stands for
\* 3..10 zeros and symbol 18 for 11..138; and what is sent as single lengths
\* are runs too short for a repeat code: never three zeros in a row, never
\* four equal lengths in a row.
C23_SendTreeDecodes ==
    s_out.done =>
        \E d \in {Sent23} :
            /\ d.ok
            /\ Len(d.lens) = s_tree.max_code + 1
            /\ \A n \in 0..s_tree.max_code : d.lens[n + 1] = s_tree.dl[n]
            /\ \A i \in DOMAIN d.syms :
                  /\ d.syms[i][1] = REP_3_6 =>
                        /\ i > 1
                        /\ d.syms[i][2] \in 3..6
                        /\ d.syms[i][3] # 0
                        /\ d.syms[i - 1][3] = d.syms[i][3]
                  /\ d.syms[i][1] = REPZ_3_10 => d.syms[i][2] \in 3..10
                  /\ d.syms[i][1] = REPZ_11_138 => d.syms[i][2] \in 11..138
            /\ \A i \in DOMAIN d.syms :
                  /\ (i + 2 <= Len(d.syms)) =>
                        ~(\A j \in i..(i + 2) : d.syms[j][1] = 0)
                  /\ (i + 3 <= Len(d.syms)) =>
                        ~(\A j \in i..(i + 3) : d.syms[j][1] = d.syms[i][1]
                                                 /\ d.syms[j][1] < REP_3_6)

\* An array sent with all three repeat codes, one REP_3_6 repeating what
\* another REP_3_6 repeated.
C23_Witness ==
    /\ s_out.done
    /\ \E d \in {Sent23} :
          /\ d.ok
          /\ \E i \in DOMAIN d.syms : d.syms[i][1] = REPZ_3_10
          /\ \E i \in DOMAIN d.syms : d.syms[i][1] = REPZ_11_138 /\ d.syms[i][2] = 138
          /\ \E i \in DOMAIN d.syms :
                /\ i > 1
                /\ d.syms[i][1] = REP_3_6
                /\ d.syms[i - 1][1] = REP_3_6


(***************************************************************************)
(* C24: tiny last blocks.                                                  *)
(***************************************************************************)
\* The last block flushed at level > 0 holds nothing, or one literal.
TinyLast ==
    /\ Flushed
    /\ blk.built
    /\ blk.last = 1
    /\ \/ blk.lits = <<>> /\ blk.stored_len = 0
       \/ Len(blk.lits) = 1 /\ blk.lits[1][1] = 0 /\ blk.stored_len = 1

\* C24: at level > 0 a last block with an empty literal buffer and
\* stored_len = 0 is sent as one static block, BTYPE = 01 and last = 1, that
\* holds the END_BLOCK code only; with one literal and stored_len = 1 it is
\* one static block with the literal's code and then END_BLOCK.  The block is
\* never stored and never dynamic, and only the padding to the byte boundary
\* follows it.
C24_TinyLastBlockIsStatic ==
    TinyLast =>
        \E bits \in {StreamBits(Sink)} :
        \E body \in {LowBits(STATIC_TREES * 2 + 1, 3)
                     \o EntriesBits(blk.lits, 1, static_ltree, static_dtree)
                     \o CodeBits(static_ltree, END_BLOCK)} :
            /\ blk.btype = STATIC_TREES
            /\ Len(bits) >= blk.start + Len(body)
            /\ SubSeq(bits, blk.start + 1, Len(bits))
                  = body \o PadBits(blk.start + Len(body))

\* One literal flushed as the last block with the input at hand, after a
\* block that did not end on a byte boundary.
C24_Witness ==
    /\ TinyLast
    /\ Len(blk.lits) = 1
    /\ ~blk.buf_null
    /\ strategy_ = Z_DEFAULT_STRATEGY
    /\ blk.start % 8 # 0
    /\ blk.btype = STATIC_TREES


(***************************************************************************)
(* C25 and C26: bi_flush and bi_windup, on the bit sink alone.             *)
(***************************************************************************)
\* The bytes the step appended to the pending buffer.
Appended == SubSeq(pending', Len(pending) + 1, Len(pending'))

\* C25: bi_flush, in any state of the bit sink, leaves at most 7 bits in the
\* accumulator, appends only whole bytes to the pending buffer (bi_valid \div 8
\* of them, after the bytes already there), and leaves the bit sequence, the
\* pending bytes followed by the bits of the accumulator, as it was.
C25_FlushKeepsBits ==
    [][BiFlush =>
          /\ bi_valid' <= 7
          /\ bi_valid' = bi_valid % 8
          /\ Len(pending') = Len(pending) + bi_valid \div 8
          /\ SubSeq(pending', 1, Len(pending)) = pending
          /\ BytesToBits(Appended) = LowBits(bi_buf, 8 * (bi_valid \div 8))
          /\ StreamBits(Sink)' = StreamBits(Sink)]_vars

\* bi_flush has written one byte of 15 bits and kept 7.
C25_Witness ==
    /\ nsend = 2
    /\ Len(sent) = 15
    /\ Len(pending) = 1
    /\ bi_valid = 7

\* C26: bi_windup appends ceil(bi_valid / 8) bytes that hold the bits of the
\* accumulator from their lowest position on and zeros above them, and leaves
\* bi_buf = 0 and bi_valid = 0; in every state the bits of bi_buf at the
\* positions bi_valid and above are zero.
C26_WindupPadsWithZeros ==
    /\ [](bi_buf < Pow2(bi_valid))
    /\ [][BiWindup =>
            /\ Len(pending') = Len(pending) + (bi_valid + 7) \div 8
            /\ SubSeq(pending', 1, Len(pending)) = pending
            /\ BytesToBits(Appended) = LowBits(bi_buf, bi_valid) \o PadBits(bi_valid)
            /\ bi_buf' = 0
            /\ bi_valid' = 0]_vars

\* bi_windup has written nine one bits as two bytes, the second padded.
C26_Witness ==
    /\ nsend = 2
    /\ bi_valid = 0
    /\ bi_buf = 0
    /\ pending = <<255, 1>>


(***************************************************************************)
(* The handler_ptr container (include/beast/core/handler_ptr.hpp).  The    *)
(* containers that share an object form a doubly linked list through next_ *)
(* and prev_; the object is destroyed by the container that finds itself   *)
(* alone in the list.  Containers live in MaxPtrs places of memory.  A     *)
(* member no constructor has set, and every member of a place whose        *)
(* container has been destroyed, is indeterminate (Indet): reading it      *)
(* gives any value, and a write through a pointer to a destroyed container *)
(* leaves it indeterminate.  The copy operations increment p_->n, a member *)
(* the struct D of handler_ptr does not declare (B of mutual_ptr does);    *)
(* nothing reads it, and the model leaves it out.  BOOST_ASSERT is taken   *)
(* as compiled out.                                                        *)
(***************************************************************************)
Ptrs == 1..MaxPtrs
Indet == -1

\* The memory the operations work on.
Mem == [p |-> p_, next |-> next_, prev |-> prev_, destroys |-> destroys]

SetMem(m) ==
    /\ p_' = m.p
    /\ next_' = m.next
    /\ prev_' = m.prev
    /\ destroys' = m.destroys

\* x->next_ = v, x->prev_ = v and x->p_ = v.
set_next(m, x, v) == IF x = Indet \/ m.p[x] = Indet THEN m ELSE [m EXCEPT !.next[x] = v]
set_prev(m, x, v) == IF x = Indet \/ m.p[x] = Indet THEN m ELSE [m EXCEPT !.prev[x] = v]
set_p(m, x, v) == IF x = Indet \/ m.p[x] = Indet THEN m ELSE [m EXCEPT !.p[x] = v]

\* D::destroy(), on object o; the history counts up to a second call.
destroy(m, o) == [m EXCEPT !.destroys[o] = IF @ < 2 THEN @ + 1 ELSE @]

\* release(), on the container at c.
release(m, c) ==
    IF m.prev[c] # 0
    THEN LET m1 == set_next(m, m.prev[c], m.next[c])
         IN  IF m1.next[c] # 0 THEN set_prev(m1, m1.next[c], m1.prev[c]) ELSE m1
    ELSE IF m.next[c] # 0
    THEN LET m1 == set_prev(m, m.next[c], m.prev[c])
         IN  IF m1.prev[c] # 0 THEN set_next(m1, m1.prev[c], m1.next[c]) ELSE m1
    ELSE destroy(m, m.p[c])

\* The move without other.p_ = nullptr.
take_keep(m, c, o) ==
    LET m2 == [m EXCEPT !.prev[c] = m.prev[o]]
        m3 == [m2 EXCEPT !.next[c] = m2.next[o]]
        m4 == IF m3.prev[c] # 0 THEN set_next(m3, m3.prev[c], c) ELSE m3
    IN  IF m4.next[c] # 0 THEN set_prev(m4, m4.next[c], c) ELSE m4

\* What the move constructor and the move assignment do when p_, taken from
\* other, is not null: other gives up the object and its place in the list.
take(m, c, o) ==
    LET m1 == [m EXCEPT !.p[o] = 0]
        m2 == [m1 EXCEPT !.prev[c] = m1.prev[o]]
        m3 == [m2 EXCEPT !.next[c] = m2.next[o]]
        m4 == IF m3.prev[c] # 0 THEN set_next(m3, m3.prev[c], c) ELSE m3
    IN  IF m4.next[c] # 0 THEN set_prev(m4, m4.next[c], c) ELSE m4

\* What the copy constructor and the copy assignment do when p_, copied from
\* other, is not null: the container enters the list ahead of other.
share(m, c, o) ==
    LET m1 == [m EXCEPT !.prev[c] = m.prev[o]]
        m2 == IF m1.prev[c] # 0 THEN set_next(m1, m1.prev[c], c) ELSE m1
        m3 == [m2 EXCEPT !.next[c] = o]
    IN  set_prev(m3, m3.next[c], c)

\* A constructor's mem-initializer p_(other.p_), or p_(nullptr) with from = 0;
\* next_ and prev_ are not set.
construct(m, c, from) ==
    [m EXCEPT !.p[c] = IF from = 0 THEN 0 ELSE m.p[from],
              !.next[c] = Indet, !.prev[c] = Indet]

\* operator=(handler_ptr&& other)
move_assign(m, c, o) ==
    LET m1 == IF m.p[c] # 0 THEN release(m, c) ELSE m
        m2 == [m1 EXCEPT !.p[c] = m1.p[o]]
    IN  IF m2.p[c] = 0 THEN m2 ELSE take(m2, c, o)

\* operator=(handler_ptr const& other)
copy_assign(m, c, o) ==
    IF c = o THEN m
    ELSE LET m1 == IF m.p[c] # 0 THEN release(m, c) ELSE m
             m2 == [m1 EXCEPT !.p[c] = m1.p[o]]
         IN  IF m2.p[c] = 0 THEN m2 ELSE share(m2, c, o)

\* reset()
reset(m, c) ==
    IF m.p[c] # 0 THEN [release(m, c) EXCEPT !.p[c] = 0] ELSE m

\* The ways a loop of reset_all can go from it on, following next_ (forward)
\* or prev_: the containers it visits, and whether it comes back to one it
\* has visited, after which it never ends.
RECURSIVE walk(_, _, _, _)
walk(m, it, forward, seen) ==
    IF it = Indet THEN UNION {walk(m, v, forward, seen) : v \in 0..MaxPtrs}
    ELSE IF it = 0 THEN {[seen |-> seen, loops |-> FALSE]}
    ELSE IF it \in seen THEN {[seen |-> seen, loops |-> TRUE]}
    ELSE walk(m, IF forward THEN m.next[it] ELSE m.prev[it], forward,
              seen \cup {it})

\* cur->p_ = nullptr for every container visited.
clear(m, seen) ==
    [m EXCEPT !.p = [x \in Ptrs |-> IF x \in seen /\ @[x] # Indet THEN 0 ELSE @[x]]]

\* reset_all(): the memory when the call returns, or when it starts to loop
\* (hangs), for every way its loops can go.
reset_all(m, c) ==
    IF m.p[c] = 0 THEN {[mem |-> m, hangs |-> FALSE]}
    ELSE UNION {
           IF back.loops THEN {[mem |-> clear(m, back.seen), hangs |-> TRUE]}
           ELSE {IF forth.loops
                 THEN [mem |-> clear(clear(m, back.seen), forth.seen), hangs |-> TRUE]
                 ELSE LET m2 == clear(clear(m, back.seen), forth.seen)
                      IN  [mem |-> [destroy(m2, m.p[c]) EXCEPT !.p[c] = 0],
                           hangs |-> FALSE] :
                 forth \in walk(m, m.next[c], TRUE, {})} :
           back \in walk(m, m.prev[c], FALSE, {})}

\* explicit operator bool() const
operator_bool(c) == p_[c] # 0

(***************************************************************************)
(* Specification of handler_ptr: any sequence of constructions, copies,    *)
(* moves, assignments (a container to itself included), reset, reset_all   *)
(* and destructions, MaxPtrOps of them, on MaxPtrs places and MaxObjects   *)
(* managed objects.                                                        *)
(***************************************************************************)
InitPtr ==
    /\ p_ = [c \in Ptrs |-> Indet]
    /\ next_ = [c \in Ptrs |-> Indet]
    /\ prev_ = [c \in Ptrs |-> Indet]
    /\ live = {}
    /\ made = 0
    /\ destroys = [o \in 1..MaxObjects |-> 0]
    /\ op = [name |-> "none", n |-> 0]
    /\ IdleSend
    /\ IdleRead
    /\ IdleSink
    /\ IdleTree
    /\ IdleBlock

\* The call of name has left the memory m.
Called(name, m) ==
    /\ op.name # "hangs"
    /\ op.n < MaxPtrOps
    /\ SetMem(m)
    /\ op' = [name |-> name, n |-> op.n + 1]
    /\ UNCHANGED <<sendvars, readvars, bitvars, treevars, blockvars>>

\* handler_ptr(DeducedHandler&& handler, Args&&... args)
Construct(c) ==
    /\ c \notin live
    /\ made < MaxObjects
    /\ Called("handler_ptr", [Mem EXCEPT !.p[c] = made + 1, !.next[c] = 0,
                                         !.prev[c] = 0])
    /\ made' = made + 1
    /\ live' = live \cup {c}

\* handler_ptr()
DefaultConstruct(c) ==
    /\ c \notin live
    /\ Called("default", construct(Mem, c, 0))
    /\ live' = live \cup {c}
    /\ UNCHANGED made

\* handler_ptr(handler_ptr&& other)
MoveConstruct(c, o) ==
    /\ c \notin live
    /\ o \in live
    /\ Called("move", IF p_[o] = 0 THEN construct(Mem, c, o)
                      ELSE take(construct(Mem, c, o), c, o))
    /\ live' = live \cup {c}
    /\ UNCHANGED made

\* handler_ptr(handler_ptr const& other)
CopyConstruct(c, o) ==
    /\ c \notin live
    /\ o \in live
    /\ Called("copy", IF p_[o] = 0 THEN construct(Mem, c, o)
                      ELSE share(construct(Mem, c, o), c, o))
    /\ live' = live \cup {c}
    /\ UNCHANGED made

MoveAssign(c, o) ==
    /\ c \in live
    /\ o \in live
    /\ Called("move_assign", move_assign(Mem, c, o))
    /\ UNCHANGED <<live, made>>

CopyAssign(c, o) ==
    /\ c \in live
    /\ o \in live
    /\ Called("copy_assign", copy_assign(Mem, c, o))
    /\ UNCHANGED <<live, made>>

Reset(c) ==
    /\ c \in live
    /\ Called("reset", reset(Mem, c))
    /\ UNCHANGED <<live, made>>

ResetAll(c) ==
    /\ c \in live
    /\ \E r \in reset_all(Mem, c) :
          Called(IF r.hangs THEN "hangs" ELSE "reset_all", r.mem)
    /\ UNCHANGED <<live, made>>

\* ~handler_ptr(); the members of the container are indeterminate afterwards.
Destroy(c) ==
    /\ c \in live
    /\ Called("destructor",
              [(IF p_[c] # 0 THEN release(Mem, c) ELSE Mem)
                  EXCEPT !.p[c] = Indet, !.next[c] = Indet, !.prev[c] = Indet])
    /\ live' = live \ {c}
    /\ UNCHANGED made

NextPtr ==
    \/ \E c \in Ptrs : Construct(c)
    \/ \E c \in Ptrs : DefaultConstruct(c)
    \/ \E c, o \in Ptrs : MoveConstruct(c, o)
    \/ \E c, o \in Ptrs : CopyConstruct(c, o)
    \/ \E c, o \in Ptrs : MoveAssign(c, o)
    \/ \E c, o \in Ptrs : CopyAssign(c, o)
    \/ \E c \in Ptrs : Reset(c)
    \/ \E c \in Ptrs : ResetAll(c)
    \/ \E c \in Ptrs : Destroy(c)

SpecPtr == InitPtr /\ [][NextPtr]_vars


(***************************************************************************)
(* C27: the managed object and its owners.                                 *)
(***************************************************************************)
\* The containers that own object o.
Owners(o) == {c \in live : p_[c] = o}

Moves29(pairs) ==
    /\ \A c \in live : operator_bool(c) <=> p_[c] \in 1..made
    /\ \A c \in Ptrs : DefaultConstruct(c) => ~operator_bool(c)'
    /\ \A c \in Ptrs : Construct(c) =>
           /\ operator_bool(c)'
           /\ p_'[c] = made'
           /\ destroys'[made'] = 0
    /\ \A c, o \in Ptrs : MoveConstruct(c, o) =>
           /\ ~operator_bool(o)'
           /\ p_'[c] = p_[o]
    /\ \A c, o \in Ptrs : (<<c, o>> \in pairs /\ MoveAssign(c, o)) =>
           /\ ~operator_bool(o)'
           /\ p_'[c] = p_[o]

\* C29, as stated: operator bool is true if and only if the container manages
\* an object: false after default construction, true after construction from
\* a handler, and false for the source of every move construction and move
\* assignment, whose target then manages the object the source managed.
C29_Original == [][Moves29(Ptrs \X Ptrs)]_vars

\* C29: operator bool is true if and only if the container manages an
\* object: false after default construction, true after construction from a
\* handler, and false for the source of a move construction or of a move
\* assignment to another container, whose target then manages the object the
\* source managed; a container move-assigned from itself manages no object.
C29_OperatorBool ==
    [][/\ Moves29({pr \in Ptrs \X Ptrs : pr[1] # pr[2]})
       /\ \A c \in Ptrs : MoveAssign(c, c) => ~operator_bool(c)']_vars

\* A move assignment has handed an object that is still alive from one
\* container to another.
C29_Witness ==
    /\ op.name = "move_assign"
    /\ \E c, o \in live :
          /\ c # o
          /\ ~operator_bool(o)
          /\ operator_bool(c)
          /\ destroys[p_[c]] = 0
          /\ Owners(p_[c]) = {c}


(***************************************************************************)
(* read() of test/http/new_parser.cpp: a response is read from a stream    *)
(* through a parse_buffer into a message with a str_body.  A byte is a     *)
(* string: "CR" and "LF" the two bytes of a line end, "V", "2" and "K" the *)
(* version, the status and the reason of the start line (each shortened to *)
(* one byte), "N" and "v" a field name and value that handle_field passes  *)
(* over (Server: test), "C" the name Content-Length, "T" the name          *)
(* Transfer-Encoding, "k" the token chunked, ";" and "e" a chunk           *)
(* extension, and "a", "b", "c" body bytes.  find_crlf and find_2x_crlf    *)
(* are taken as built with BOOST_VERSION >= 106200.                        *)
(*                                                                         *)
(* length_ has no initializer and read() default-initializes the parser:   *)
(* until a Content-Length or the size of a chunk is parsed nothing assigns *)
(* it, so its value is indeterminate.  length_ and skip_ are unsigned; a   *)
(* negative integer v stands for the value 2^64 + v.                       *)
(***************************************************************************)
\* The start line and the fields of a response, each name and value
\* shortened to one byte: "N" a field handle_field passes over, "C"
\* Content-Length with a decimal value, "T" Transfer-Encoding with the token
\* "k" (chunked) or another token.
CRLF == <<"CR", "LF">>
StartLine == <<"V", " ", "2", " ", "K">> \o CRLF
Field(name, value) == <<name, ":">> \o value \o CRLF
HeaderWith(fields) == StartLine \o Field("N", <<"v">>) \o fields \o CRLF
Header == HeaderWith(<<>>)
BodyBytes == [i \in 1..MaxBody |-> <<"a", "b", "c">>[((i - 1) % 3) + 1]]
Digits == <<"0", "1", "2", "3", "4", "5", "6", "7", "8", "9">>
\* Values of an indeterminate length_ at the start of read().
LengthChoices == {0, 1, 2, MaxBody, NoLength, -1}
\* Values of a byte in front of the buffer.
StrayBytes == {"CR", "LF", "x"}

\* A response on the stream: its bytes s, the length head of its header,
\* the body it carries, its framing, and the error a header with
\* conflicting fields has ("undefined" where handle_field has undefined
\* behaviour, "short" where the stream ends inside the body).
Message(header, wire, body, framing, err) ==
    [s |-> header \o wire, pos |-> 0, head |-> Len(header), body |-> body,
     framing |-> framing, err |-> err]

\* Without Content-Length and chunked: the body is what follows.
PlainMessages ==
    {Message(Header, SubSeq(BodyBytes, 1, k), SubSeq(BodyBytes, 1, k), "none", "ok") :
        k \in 0..MaxBody}

\* Content-Length: N followed by k bytes: fewer than N, N, or one more.
LengthMessages ==
    {Message(HeaderWith(Field("C", <<Digits[p[1] + 1]>>)),
             SubSeq(BodyBytes \o <<"x">>, 1, p[2]),
             SubSeq(BodyBytes, 1, p[1]),
             "length", IF p[2] < p[1] THEN "short" ELSE "ok") :
        p \in {q \in (0..MaxBody) \X (0..(MaxBody + 1)) :
                  q[2] \in {q[1] - 1, q[1], q[1] + 1}}}

\* chunk = chunk-size [ chunk-ext ] CRLF chunk-data CRLF
Chunk(size, ext, data) == size \o ext \o CRLF \o data \o CRLF
\* last-chunk trailer-part CRLF
LastChunk(ext, trailer) == <<"0">> \o ext \o CRLF \o trailer \o CRLF

\* Transfer-Encoding: chunked with no chunk, one chunk, two chunks with
\* extensions and a trailer, and a stream that ends inside the first chunk.
ChunkedMessages ==
    {Message(HeaderWith(Field("T", <<"k">>)), LastChunk(<<>>, <<>>), <<>>,
             "chunked", "ok"),
     Message(HeaderWith(Field("T", <<"k">>)),
             Chunk(<<"2">>, <<>>, <<"a", "b">>) \o LastChunk(<<>>, <<>>),
             <<"a", "b">>, "chunked", "ok"),
     Message(HeaderWith(Field("T", <<"k">>)),
             Chunk(<<"1">>, <<";", "e">>, <<"a">>)
                 \o Chunk(<<"2">>, <<>>, <<"b", "c">>)
                 \o LastChunk(<<";", "e">>, Field("N", <<"v">>)),
             <<"a", "b", "c">>, "chunked", "ok"),
     Message(HeaderWith(Field("T", <<"k">>)), <<"2", "CR", "LF", "a">>,
             <<"a", "b">>, "chunked", "short")}

\* Headers that carry Content-Length and Transfer-Encoding, or one of them
\* twice, and a Transfer-Encoding without chunked.
ConflictMessages ==
    {Message(HeaderWith(Field("C", <<"1">>) \o Field("C", <<"1">>)), <<"a">>, <<>>,
             "conflict", "bad_content_length"),
     Message(HeaderWith(Field("C", <<"1">>) \o Field("T", <<"k">>)), <<"a">>, <<>>,
             "conflict", "bad_transfer_encoding"),
     Message(HeaderWith(Field("T", <<"k">>) \o Field("C", <<"1">>)), <<"a">>, <<>>,
             "conflict", "bad_content_length"),
     Message(HeaderWith(Field("T", <<"k">>) \o Field("T", <<"k">>)), <<"a">>, <<>>,
             "conflict", "bad_transfer_encoding"),
     Message(HeaderWith(Field("T", <<"v">>)), <<>>, <<>>, "other", "undefined")}

Messages == PlainMessages \cup LengthMessages \cup ChunkedMessages \cup ConflictMessages

\* *it, with a zero byte after the end.
At(b, it) == IF it \in 1..Len(b) THEN b[it] ELSE "NUL"

\* clamp that gives the limit whatever x is.
clamp_limit(x, limit) == limit

\* beast::detail::clamp(x, limit) on an unsigned x.
clamp(x, limit) == IF x < 0 \/ x >= limit THEN limit ELSE x

\* parse_buffer::commit and parse_buffer::consume, on the bytes of data().
commit(b, bytes) == b \o bytes
consume(b, n) == IF n < Len(b) THEN SubSeq(b, n + 1, Len(b)) ELSE <<>>

\* find_crlf(first, last) on the bytes s from index from on: the index of the
\* first CR LF and the index after it, both Len(s) + 1 (last) when there is
\* none.
find_crlf(s, from) ==
    LET hits == {i \in from..(Len(s) - 1) : s[i] = "CR" /\ s[i + 1] = "LF"}
    IN  IF hits = {} THEN [first |-> Len(s) + 1, second |-> Len(s) + 1]
        ELSE LET i == CHOOSE h \in hits : \A g \in hits : h <= g
             IN  [first |-> i, second |-> i + 2]

\* find_2x_crlf(first, last) on the bytes s from index from on: the index of
\* the first CR LF CR LF and the index after it, both Len(s) + 1 (last) when
\* there is none.
find_2x_crlf(s, from) ==
    LET hits == {i \in from..(Len(s) - 3) :
                    /\ s[i] = "CR" /\ s[i + 1] = "LF"
                    /\ s[i + 2] = "CR" /\ s[i + 3] = "LF"}
    IN  IF hits = {} THEN [first |-> Len(s) + 1, second |-> Len(s) + 1]
        ELSE LET i == CHOOSE h \in hits : \A g \in hits : h <= g
             IN  [first |-> i, second |-> i + 4]

\* get_crlf(it) at index it.
get_crlf(b, it) == At(b, it) = "CR" /\ At(b, it + 1) = "LF"

\* detail::is_digit and the value of a digit; detail::unhex.
is_digit(ch) == \E d \in 1..Len(Digits) : Digits[d] = ch
digit(ch) == (CHOOSE d \in 1..Len(Digits) : Digits[d] = ch) - 1
unhex(ch) ==
    IF is_digit(ch) THEN digit(ch)
    ELSE IF ch = "a" THEN 10 ELSE IF ch = "b" THEN 11 ELSE IF ch = "c" THEN 12
    ELSE -1

\* parse_dec(it, last, v): the digits from index it on.  The values of the
\* messages are far below the limit of the overflow test.
RECURSIVE parse_dec_loop(_, _, _)
parse_dec_loop(b, it, v) ==
    IF ~is_digit(At(b, it)) THEN v
    ELSE parse_dec_loop(b, it + 1, 10 * v + digit(At(b, it)))

parse_dec(b, it) ==
    IF ~is_digit(At(b, it)) THEN [ok |-> FALSE, v |-> 0]
    ELSE [ok |-> TRUE, v |-> parse_dec_loop(b, it + 1, digit(At(b, it)))]

\* parse_hex(it, v): the hex digits from index it on, and the index after
\* them.
RECURSIVE parse_hex_loop(_, _, _)
parse_hex_loop(b, it, v) ==
    IF unhex(At(b, it)) = -1 THEN [ok |-> TRUE, v |-> v, it |-> it]
    ELSE parse_hex_loop(b, it + 1, 16 * v + unhex(At(b, it)))

parse_hex(b, it) ==
    IF unhex(At(b, it)) = -1 THEN [ok |-> FALSE, v |-> 0, it |-> it]
    ELSE parse_hex_loop(b, it + 1, unhex(At(b, it)))

\* parse_startline of a response: version, status, reason, CRLF.
parse_startline(b) ==
    IF At(b, 1) # "V" \/ At(b, 2) # " " THEN [ec |-> "bad_version", it |-> 1]
    ELSE IF At(b, 3) # "2" \/ At(b, 4) # " " THEN [ec |-> "bad_status", it |-> 3]
    ELSE IF At(b, 5) # "K" \/ At(b, 6) # "CR" \/ At(b, 7) # "LF"
    THEN [ec |-> "bad_reason", it |-> 5]
    ELSE [ec |-> "ok", it |-> 8]

to_field_char(ch) == ch \in {"N", "C", "T"}
is_value_char(ch) == ch \notin {"CR", "LF", " ", "NUL"}

\* The loop of parse_fields over the name: the index of ':', or 0.
RECURSIVE field_name(_, _)
field_name(b, it) ==
    IF At(b, it) = ":" THEN it
    ELSE IF ~to_field_char(At(b, it)) THEN 0
    ELSE field_name(b, it + 1)

\* while(*it == ' ' || *it == '\t') ++it;
RECURSIVE skip_space(_, _)
skip_space(b, it) == IF At(b, it) = " " THEN skip_space(b, it + 1) ELSE it

\* The loop of parse_fields over the value, up to the CRLF.
RECURSIVE field_value(_, _)
field_value(b, it) ==
    IF At(b, it) = "CR"
    THEN IF At(b, it + 1) # "LF" THEN [ec |-> "bad_field", it |-> it + 1]
         ELSE [ec |-> "ok", it |-> it + 2]
    ELSE IF is_value_char(At(b, it)) \/ At(b, it) = " "
    THEN field_value(b, it + 1)
    ELSE [ec |-> "bad_value", it |-> it]

\* handle_field without the tests of the flags already set.
handle_field_unchecked(st, name, b, first, last, next_end) ==
    IF name = <<"C">>
    THEN IF ~parse_dec(b, first).ok THEN [st EXCEPT !.ec = "bad_content_length"]
         ELSE [st EXCEPT !.length = parse_dec(b, first).v,
                         !.f = @ \cup {"ContentLength"}]
    ELSE IF name = <<"T">>
    THEN [st EXCEPT !.f = @ \cup {"Chunked"}]
    ELSE st

\* handle_field(name, value, ec) on the flags and length_ of st, the value
\* being the bytes first .. last - 1 of b.  Where no token of a
\* Transfer-Encoding is chunked, std::next steps past the end of the list:
\* next_end is what the comparison with v.end() then gives.
handle_field(st, name, b, first, last, next_end) ==
    IF name = <<"C">>
    THEN IF "Chunked" \in st.f THEN [st EXCEPT !.ec = "bad_content_length"]
         ELSE IF "ContentLength" \in st.f THEN [st EXCEPT !.ec = "bad_content_length"]
         ELSE IF ~parse_dec(b, first).ok THEN [st EXCEPT !.ec = "bad_content_length"]
         ELSE [st EXCEPT !.length = parse_dec(b, first).v,
                         !.f = @ \cup {"ContentLength"}]
    ELSE IF name = <<"T">>
    THEN IF "ContentLength" \in st.f THEN [st EXCEPT !.ec = "bad_transfer_encoding"]
         ELSE IF "Chunked" \in st.f THEN [st EXCEPT !.ec = "bad_transfer_encoding"]
         ELSE LET v == SelectSeq(SubSeq(b, first, last - 1),
                                 LAMBDA ch : ch \notin {",", " "})
                  found == {i \in 1..Len(v) : v[i] = "k"}
                  at_end ==
                      IF found = {} THEN next_end
                      ELSE (CHOOSE i \in found : \A j \in found : i <= j) = Len(v)
              IN  IF ~at_end THEN [st EXCEPT !.ec = "bad_transfer_encoding"]
                  ELSE [st EXCEPT !.f = @ \cup {"Chunked"}]
    ELSE st

\* parse_fields(it, ec): st is [ec, it, f, length], handle_field called for
\* each field.
RECURSIVE parse_fields(_, _, _)
parse_fields(b, st, next_end) ==
    IF At(b, st.it) = "CR"
    THEN IF At(b, st.it + 1) # "LF" THEN [st EXCEPT !.ec = "bad_field", !.it = @ + 1]
         ELSE [st EXCEPT !.it = @ + 2]
    ELSE LET colon == field_name(b, st.it)
         IN  IF colon = 0 THEN [st EXCEPT !.ec = "bad_field"]
             ELSE LET first == skip_space(b, colon + 1)
                      v == field_value(b, first)
                  IN  IF v.ec # "ok" THEN [st EXCEPT !.ec = v.ec, !.it = v.it]
                      ELSE LET h == handle_field([st EXCEPT !.it = v.it],
                                                 SubSeq(b, st.it, colon - 1),
                                                 b, first, v.it - 2, next_end)
                           IN  IF h.ec # "ok" THEN h
                               ELSE parse_fields(b, h, next_end)

\* parse_header(buffer, ec), the search having started at first + skip_ with
\* the bytes stray in front of the buffer when skip_ has wrapped around.
\* The flags and length_ are those handle_field has left, also when the
\* header is refused.
parse_header(b, skip, f, length, stray, next_end) ==
    LET n == Len(b)
        back == Len(stray)
        found == find_2x_crlf(stray \o b, IF skip < 0 THEN 1 ELSE skip + 1)
        second == found.second - back
        keep == [buffer |-> b, f |-> f, length |-> length]
    IN  IF found.first - back = n + 1
        THEN keep @@ [ec |-> "need_more", skip |-> IF n # 0 THEN n - 3 ELSE skip]
        ELSE LET s == parse_startline(b)
                 p == IF s.ec = "ok"
                      THEN parse_fields(b, [ec |-> "ok", it |-> s.it, f |-> f,
                                            length |-> length], next_end)
                      ELSE [ec |-> s.ec, it |-> s.it, f |-> f, length |-> length]
             IN  IF p.ec # "ok"
                 THEN [ec |-> p.ec, skip |-> 0, buffer |-> b, f |-> p.f,
                       length |-> p.length]
                 ELSE IF p.it # second
                 THEN [ec |-> "bad_value", skip |-> 0, buffer |-> b, f |-> p.f,
                       length |-> p.length]
                 ELSE [ec |-> "ok", skip |-> 0, buffer |-> consume(b, second - 1),
                       f |-> p.f \cup {"Header"}, length |-> p.length]

\* parse_chunked from final_chunk on: the trailer up to the empty line.
final_chunk(b, skip, f, length) ==
    LET n == Len(b)
        m == find_2x_crlf(b, skip + 1)
    IN  IF m.first = n + 1
        THEN [ec |-> "need_more", skip |-> IF n > 3 THEN n - 3 ELSE skip,
              buffer |-> b, f |-> f, length |-> length]
        ELSE IF At(b, 1) = "CR" /\ At(b, 2) # "LF"
        THEN [ec |-> "bad_chunk_size", skip |-> skip, buffer |-> b, f |-> f,
              length |-> length]
        ELSE [ec |-> "ok", skip |-> skip, buffer |-> b, f |-> f \cup {"Complete"},
              length |-> length]

\* parse_chunked at the size of a chunk.
chunk_size(b, skip, f, length) ==
    LET n == Len(b)
        m == find_crlf(b, skip + 1)
        h == parse_hex(b, 1)
        bad == [ec |-> "bad_chunk_size", skip |-> 0, buffer |-> b, f |-> f,
                length |-> length]
    IN  IF m.first = n + 1
        THEN [ec |-> "need_more", skip |-> IF n > 1 THEN n - 1 ELSE skip,
              buffer |-> b, f |-> f, length |-> length]
        ELSE IF ~h.ok THEN [bad EXCEPT !.skip = skip]
        ELSE IF h.v = 0
        THEN final_chunk(consume(b, h.it - 1), 0, f \cup {"FinalChunk"}, length)
        ELSE IF At(b, h.it) = "CR" /\ At(b, h.it + 1) # "LF" THEN bad
        ELSE IF At(b, h.it) \notin {"CR", ";"} THEN bad
        ELSE [ec |-> "ok", skip |-> 0, buffer |-> consume(b, m.second - 1),
              f |-> f \cup {"NextChunk"}, length |-> h.v]

\* parse_chunked(buffer, ec)
parse_chunked(b, skip, f, length) ==
    IF "NextChunk" \in f /\ Len(b) < 2
    THEN [ec |-> "need_more", skip |-> skip, buffer |-> b, f |-> f, length |-> length]
    ELSE IF "NextChunk" \in f /\ ~get_crlf(b, 1)
    THEN [ec |-> "bad_chunk_data", skip |-> skip, buffer |-> b, f |-> f,
          length |-> length]
    ELSE LET b1 == IF "NextChunk" \in f THEN consume(b, 2) ELSE b
             f1 == f \ {"NextChunk"}
         IN  IF "FinalChunk" \notin f1 THEN chunk_size(b1, skip, f1, length)
             ELSE final_chunk(b1, skip, f1, length)

\* write(buffer, ec) once the header is done.
write(b, skip, f, length) ==
    IF "Chunked" \notin f
    THEN [ec |-> "ok", skip |-> skip, buffer |-> b, f |-> f, length |-> length]
    ELSE parse_chunked(b, skip, f, length)

\* The bytes that can stand in front of the buffer where the search starts.
Strays(skip) ==
    IF skip >= 0 THEN {<<>>}
    ELSE IF skip = -1 THEN {<<x>> : x \in StrayBytes}
    ELSE {<<x, y>> : x, y \in StrayBytes}

\* str_body::reader: prepare, a write of bytes into the prepared buffer,
\* commit and finish, on the string body_ and the count len_.
r_prepare(r, n) == [r EXCEPT !.size = r.len + n]
r_put(r, bytes) == [r EXCEPT !.str = SubSeq(r.str, 1, r.len) \o bytes]
r_commit(r, n) ==
    IF r.size > r.len + n THEN [r EXCEPT !.size = r.len + n, !.len = r.len + n]
    ELSE [r EXCEPT !.len = r.size]
r_finish(r) ==
    [r EXCEPT !.size = r.len, !.str = SubSeq(r.str, 1, IF r.len < Len(r.str) THEN r.len ELSE Len(r.str))]

\* The reader as a record, and back into body_ and len_.
Reader == [str |-> body_.str, size |-> body_.size, len |-> len_]
SetReader(r) ==
    /\ body_' = [str |-> r.str, size |-> r.size]
    /\ len_' = r.len

\* complete() and remain()
complete == "Complete" \in f_
remain == IF f_ \cap {"ContentLength", "Chunked"} # {} THEN length_ ELSE NoLength

\* remain() with the length and the flags write_body has left.
remain_of(f, length) ==
    IF f \cap {"ContentLength", "Chunked"} # {} THEN length ELSE NoLength

\* write_eof that completes the message whatever its framing.
write_eof_any(f) == [f |-> f \cup {"Complete"}, ec |-> "ok"]

\* write_eof(ec): the flags and the error it leaves.
write_eof(f) ==
    IF f \cap {"ContentLength", "Chunked"} # {}
    THEN [f |-> f, ec |-> IF "Complete" \in f THEN "ok" ELSE "short_read"]
    ELSE [f |-> f \cup {"Complete"}, ec |-> "ok"]

\* write_body(r, buffer, ec) after the copy of len bytes: length_ and the
\* flags.
write_body(f, length, len) ==
    IF "ContentLength" \in f
    THEN [length |-> length - len,
          f |-> IF length - len = 0 THEN f \cup {"Complete"} ELSE f]
    ELSE IF "Chunked" \in f THEN [length |-> length - len, f |-> f]
    ELSE [length |-> length, f |-> f]

\* The bytes the stream has not delivered yet.
Unread == SubSeq(stream.s, stream.pos + 1, Len(stream.s))

(***************************************************************************)
(* Specification of read(): the responses of Messages, every way read_some *)
(* can split the data, and every value of the indeterminate length_.       *)
(***************************************************************************)
InitRead ==
    /\ stream \in Messages
    /\ buffer = <<>>
    /\ skip_ = 0
    /\ f_ = {}
    /\ length_ \in LengthChoices
    /\ body_ = [str |-> <<>>, size |-> 0]
    /\ len_ = 0
    /\ ec = "ok"
    /\ pc = "header"
    /\ IdleSend
    /\ IdlePtr
    /\ IdleSink
    /\ IdleTree
    /\ IdleBlock

\* p.write(buffer, ec) of the header loop.
ParseHeader ==
    /\ pc = "header"
    /\ \E stray \in Strays(skip_), next_end \in BOOLEAN :
          LET r == parse_header(buffer, skip_, f_, length_, stray, next_end)
          IN  /\ skip_' = r.skip
              /\ buffer' = r.buffer
              /\ f_' = r.f
              /\ length_' = r.length
              /\ ec' = IF r.ec = "need_more" THEN "ok" ELSE r.ec
              /\ pc' = IF r.ec = "ok" THEN "body"
                       ELSE IF r.ec = "need_more" THEN "read_header"
                       ELSE "done"
    /\ UNCHANGED <<stream, body_, len_>>
    /\ UNCHANGED <<sendvars, ptrvars, bitvars, treevars, blockvars>>

\* stream.read_some(buffer.prepare(buffer.size() + 1), ec); buffer.commit
ReadHeader ==
    /\ pc = "read_header"
    /\ IF Unread = <<>>
       THEN /\ ec' = "eof"
            /\ pc' = "done"
            /\ UNCHANGED <<stream, buffer>>
       ELSE \E k \in 1..(Len(buffer) + 1) :
               /\ k <= Len(Unread)
               /\ buffer' = commit(buffer, SubSeq(Unread, 1, k))
               /\ stream' = [stream EXCEPT !.pos = @ + k]
               /\ pc' = "header"
               /\ UNCHANGED ec
    /\ UNCHANGED <<skip_, f_, length_, body_, len_>>
    /\ UNCHANGED <<sendvars, ptrvars, bitvars, treevars, blockvars>>

\* One pass of while(! p.complete()) up to a read: p.write(buffer, ec), then
\* p.write_body(r, buffer, ec) unless write wants more data or fails.
WriteBody ==
    /\ pc = "body"
    /\ ~complete
    /\ LET w == write(buffer, skip_, f_, length_)
           n == clamp(w.length, Len(w.buffer))
           r == r_commit(r_put(r_prepare(Reader, n), SubSeq(w.buffer, 1, n)), n)
           b == write_body(w.f, w.length, n)
       IN  IF w.ec # "ok"
           THEN /\ buffer' = w.buffer
                /\ skip_' = w.skip
                /\ f_' = w.f
                /\ length_' = w.length
                /\ ec' = IF w.ec = "need_more" THEN "ok" ELSE w.ec
                /\ pc' = IF w.ec = "need_more" THEN "read_chunk" ELSE "done"
                /\ UNCHANGED <<body_, len_>>
           ELSE /\ SetReader(r)
                /\ buffer' = consume(w.buffer, n)
                /\ skip_' = w.skip
                /\ f_' = b.f
                /\ length_' = b.length
                /\ pc' = IF remain_of(b.f, b.length) # 0 THEN "read_body" ELSE "body"
                /\ UNCHANGED ec
    /\ UNCHANGED stream
    /\ UNCHANGED <<sendvars, ptrvars, bitvars, treevars, blockvars>>

\* The read of the loop around p.write in the body loop:
\* stream.read_some(buffer.prepare(buffer.size() + 1), ec); buffer.commit
ReadChunk ==
    /\ pc = "read_chunk"
    /\ IF Unread = <<>>
       THEN /\ ec' = "eof"
            /\ pc' = "done"
            /\ UNCHANGED <<stream, buffer>>
       ELSE \E k \in 1..(Len(buffer) + 1) :
               /\ k <= Len(Unread)
               /\ buffer' = commit(buffer, SubSeq(Unread, 1, k))
               /\ stream' = [stream EXCEPT !.pos = @ + k]
               /\ pc' = "body"
               /\ UNCHANGED ec
    /\ UNCHANGED <<skip_, f_, length_, body_, len_>>
    /\ UNCHANGED <<sendvars, ptrvars, bitvars, treevars, blockvars>>

\* r.prepare(remain, ec); stream.read_some(b, ec); then write_eof at the end
\* of the stream, r.commit and p.consume otherwise.  For a remain of 2^63 or
\* more the resize of r.prepare throws std::length_error.
ReadBody ==
    /\ pc = "read_body"
    /\ IF remain < 0
       THEN /\ ec' = "length_error"
            /\ pc' = "done"
            /\ UNCHANGED <<stream, f_, length_, body_, len_>>
       ELSE IF Unread = <<>>
       THEN /\ SetReader(r_prepare(Reader, remain))
            /\ f_' = write_eof(f_).f
            /\ ec' = write_eof(f_).ec
            /\ pc' = IF write_eof(f_).ec = "ok" THEN "body" ELSE "done"
            /\ UNCHANGED <<stream, length_>>
       ELSE \E k \in 1..Len(Unread) :
               /\ k <= remain
               /\ SetReader(r_commit(r_put(r_prepare(Reader, remain),
                                           SubSeq(Unread, 1, k)), k))
               /\ stream' = [stream EXCEPT !.pos = @ + k]
               /\ length_' = length_ - k
               /\ pc' = "body"
               /\ UNCHANGED <<f_, ec>>
    /\ UNCHANGED <<buffer, skip_>>
    /\ UNCHANGED <<sendvars, ptrvars, bitvars, treevars, blockvars>>

\* r.finish(ec); msg = p.release()
Finish ==
    /\ pc = "body"
    /\ complete
    /\ SetReader(r_finish(Reader))
    /\ pc' = "done"
    /\ UNCHANGED <<stream, buffer, skip_, f_, length_, ec>>
    /\ UNCHANGED <<sendvars, ptrvars, bitvars, treevars, blockvars>>

NextRead ==
    \/ ParseHeader
    \/ ReadHeader
    \/ WriteBody
    \/ ReadChunk
    \/ ReadBody
    \/ Finish

SpecRead == InitRead /\ [][NextRead]_vars

(***************************************************************************)
(* C30: read() without Content-Length and without chunked.                 *)
(***************************************************************************)
\* The bytes of the stream after the header.
SentBody == SubSeq(stream.s, stream.head + 1, Len(stream.s))

\* C30: read() of a response that has neither Content-Length nor chunked
\* encoding succeeds without error, and the body of the message is exactly
\* the bytes that follow the header up to the end of the stream, in order,
\* for every way the stream splits the data across read_some calls.
C30_ReadUntilEof ==
    (pc = "done" /\ stream.framing = "none") =>
        /\ ec = "ok"
        /\ body_ = [str |-> SentBody, size |-> Len(SentBody)]


FillEntries == <<<<30000, 254>>, <<0, 200>>, <<1, 0>>>>

\* The entries of a buffer, repeated in turn.
FillPatterns == {<<1>>, <<2>>, <<1, 2>>, <<1, 3>>}

\* The numbers of entries in the buffer: one, half of the buffer, and the
\* lit_bufsize - 1 entries at which _tr_tally asks for the block to be sent.
FillCounts == {1, MinLitBufSize \div 2, MinLitBufSize - 1}

\* The state after _tr_init and n calls of _tr_tally.
Filled(strategy, pattern, n) ==
    ForRange(LAMBDA st, i :
                 LET e == FillEntries[pattern[((i - 1) % Len(pattern)) + 1]]
                 IN  tr_tally(st, e[1], e[2]),
             tr_init(6, strategy), 1, n)

\* The bytes of input the entries of the buffer stand for.
InputLen(lits, n) ==
    ForRange(LAMBDA acc, i :
                 [len |-> acc.len + (IF lits[i][1] = 0 THEN 1 ELSE lits[i][2] + 3)],
             [len |-> 0], 1, n).len

InitCompress ==
    /\ IdleOther
    /\ IdleTree
    /\ \E strategy \in Strategies : \E pattern \in FillPatterns :
          \E n \in FillCounts :
             \E st \in {Filled(strategy, pattern, n)} :
                /\ level_ = st.level
                /\ strategy_ = st.strategy
                /\ data_type = st.data_type
                /\ lit_buf = st.lit_buf
                /\ dyn_ltree_ = st.dyn_ltree
                /\ dyn_dtree_ = st.dyn_dtree
                /\ bl_tree_ = st.bl_tree
                /\ opt_len_ = st.opt_len
                /\ static_len_ = st.static_len
                /\ matches_ = st.matches
                /\ bi_buf = st.sink.bi_buf
                /\ bi_valid = st.sink.bi_valid
                /\ pending = st.sink.pending
    /\ sent = <<>>
    /\ nsend = 0
    /\ \E last \in {0, 1} : blk = [kind |-> "filled", last |-> last]
    /\ nblocks = 0

\* _tr_flush_block up to the loop of compress_block: the trees, the choice
\* of the block type, the block header and, for a dynamic block, the trees.
BeginBlock ==
    /\ blk.kind = "filled"
    /\ LET bb == flush_trees(State)
           sz == flush_sizes(TRUE, bb, InputLen(lit_buf, Len(lit_buf)))
           btype == block_type(strategy_, TRUE, InputLen(lit_buf, Len(lit_buf)),
                               sz.static_lenb, sz.opt_lenb)
       IN  /\ SetSink(IF btype = STATIC_TREES
                      THEN send_bits(Sink, STATIC_TREES * 2 + blk.last, 3)
                      ELSE send_all_trees(
                               send_bits(Sink, DYN_TREES * 2 + blk.last, 3),
                               bb.lt, bb.dt, bb.bl, bb.lt.max_code + 1,
                               bb.dt.max_code + 1, bb.max_blindex + 1))
           /\ blk' = [kind |-> "compress", last |-> blk.last, btype |-> btype,
                      lx |-> 0,
                      ltree |-> IF btype = STATIC_TREES THEN static_ltree
                                ELSE [fc |-> bb.lt.fc, dl |-> bb.lt.dl],
                      dtree |-> IF btype = STATIC_TREES THEN static_dtree
                                ELSE [fc |-> bb.dt.fc, dl |-> bb.dt.dl]]
    /\ nblocks' = nblocks + 1
    /\ UNCHANGED <<othervars, sent, nsend, treevars, level_, strategy_, data_type,
                   lit_buf, dyn_ltree_, dyn_dtree_, bl_tree_, opt_len_, static_len_,
                   matches_>>

\* One pass of the loop of compress_block: the entry lx, then lx++.
CompressEntry ==
    /\ blk.kind = "compress"
    /\ blk.lx < Len(lit_buf)
    /\ SetSink(compress_block_entry(Sink, lit_buf, blk.lx + 1, blk.ltree, blk.dtree))
    /\ blk' = [blk EXCEPT !.lx = @ + 1]
    /\ UNCHANGED <<othervars, sent, nsend, treevars, level_, strategy_, data_type,
                   lit_buf, dyn_ltree_, dyn_dtree_, bl_tree_, opt_len_, static_len_,
                   matches_, nblocks>>

\* send_code(s, END_BLOCK, ltree), and the rest of _tr_flush_block.
EndBlock ==
    /\ blk.kind = "compress"
    /\ blk.lx = Len(lit_buf)
    /\ LET s1 == send_code(Sink, END_BLOCK, blk.ltree)
       IN  SetState(init_block([State EXCEPT
                                  !.sink = IF blk.last # 0 THEN bi_windup(s1)
                                           ELSE s1]))
    /\ blk' = [blk EXCEPT !.kind = "sent"]
    /\ UNCHANGED <<othervars, sent, nsend, treevars, nblocks>>

NextCompress ==
    \/ BeginBlock
    \/ CompressEntry
    \/ EndBlock

SpecCompress == InitCompress /\ [][NextCompress]_vars

(***************************************************************************)
(* C34: the overlay of the pending buffer and the literal buffer.          *)
(***************************************************************************)
\* C34: while compress_block encodes a block, after each of the lx entries
\* read so far the pending output satisfies pending < lit_bufsize + 2 * lx,
\* for every content of the literal buffer of up to lit_bufsize - 1 entries,
\* with the static and with the dynamic trees.
C34_PendingBelowOverlay ==
    (blk.kind = "compress" /\ blk.lx >= 1) =>
        Len(pending) < MinLitBufSize + 2 * blk.lx


(***************************************************************************)
(* C35: the IN assertion of send_bits.                                     *)
(***************************************************************************)
\* C35: every send_bits call made while a block is emitted has a length
\* from 1 to 16 and a value below 2^length: the symbols of the literal
\* buffer and the bit-length symbols sent by send_tree have codes of nonzero
\* length in the trees used, and every extra-bits value fits its width.
C35_SendBitsInputs ==
    blk.kind = "flush" => blk.in_ok

\* A dynamic block of a full literal buffer with a match and a literal,
\* whose trees were sent with more than the four bit-length codes.
C35_Witness ==
    /\ blk.kind = "flush"
    /\ blk.btype = DYN_TREES
    /\ blk.in_ok
    /\ Len(blk.lits) = LitBufSize - 1
    /\ \E i \in 1..Len(blk.lits) : blk.lits[i][1] # 0
    /\ \E i \in 1..Len(blk.lits) : blk.lits[i][1] = 0
    /\ blk.codes.blcodes > 4


(***************************************************************************)
(* C36: the redistribution of the lengths above max_length.                *)
(***************************************************************************)
\* C36: when gen_bitlen finds lengths above max_length, the redistribution
\* loop ends, no length above max_length is left, the search for a nonzero
\* bl_count never goes below index 1, bl_count[max_length] is never
\* decremented at zero, the number of leaves counted in bl_count is the same
\* before and after, and the recomputation never reads the heap below
\* heap_max: no index leaves its array for any frequency vector.
C36_RedistributionSafe ==
    (t_out.built /\ t_out.overflowed) =>
        /\ ~t_out.bad
        /\ t_out.redist.steps >= 1
        /\ t_out.redist.min_bits >= 1
        /\ ~t_out.redist.starved
        /\ t_out.redist.leaves_in = t_out.redist.leaves_out
        /\ t_out.redist.leaves_out
              = Cardinality({n \in DOMAIN t_out.len : t_out.len[n] # 0})
        /\ \A n \in DOMAIN t_out.len : t_out.len[n] <= DescOf(t_desc).max_length

\* A redistribution of several passes whose search went below
\* max_length - 1.
C36_Witness ==
    /\ t_out.built
    /\ t_out.overflowed
    /\ t_out.redist.steps >= 2
    /\ t_out.redist.min_bits < DescOf(t_desc).max_length - 1


(***************************************************************************)
(* C37: the lengths of build_tree are those of an optimal prefix code.     *)
(***************************************************************************)
\* The symbols of nonzero frequency of the vector given to build_tree.
UsedSyms ==
    {SymAt(t_desc, i - 1) : i \in {i \in 1..Len(t_freq) : t_freq[i] # 0}}

\* The sum of freq[n] * len[n] over the symbols S, for the lengths len.
RECURSIVE CostOver(_, _, _)
CostOver(S, freq, len) ==
    IF S = {} THEN 0
    ELSE LET n == CHOOSE n \in S : TRUE
         IN  freq[n] * len[n] + CostOver(S \ {n}, freq, len)

\* The sum of 2^(top - len[n]) over the symbols S.
RECURSIVE KraftOver(_, _, _)
KraftOver(S, len, top) ==
    IF S = {} THEN 0
    ELSE LET n == CHOOSE n \in S : TRUE
         IN  Pow2(top - len[n]) + KraftOver(S \ {n}, len, top)

\* The length assignments of a prefix code for the used symbols: the
\* lengths 1 .. k-1 that satisfy Kraft's inequality (no optimal code for k
\* symbols has a longer code word).
PrefixLengths(S) ==
    LET k == Cardinality(S)
    IN  {len \in [S -> 1..(k - 1)] : KraftOver(S, len, k - 1) <= Pow2(k - 1)}

\* The number of used symbols up to which every length assignment is tried.
MaxEnumerated == 5

\* The least cost of a prefix code for the weights ws, by merging the two
\* least weights of the multiset: the reference for more symbols than
\* MaxEnumerated.
RECURSIVE MergeCost(_)
MergeCost(ws) ==
    IF Len(ws) < 2 THEN 0
    ELSE LET i == CHOOSE i \in 1..Len(ws) : \A j \in 1..Len(ws) : ws[i] <= ws[j]
             r1 == SubSeq(ws, 1, i - 1) \o SubSeq(ws, i + 1, Len(ws))
             j == CHOOSE j \in 1..Len(r1) : \A h \in 1..Len(r1) : r1[j] <= r1[h]
             r2 == SubSeq(r1, 1, j - 1) \o SubSeq(r1, j + 1, Len(r1))
         IN  (ws[i] + r1[j]) + MergeCost(Append(r2, ws[i] + r1[j]))

\* C37: when no length exceeded max_length, the lengths of build_tree for at
\* least two symbols of nonzero frequency have the least sum of
\* freq[n] * len[n] among the prefix-code length assignments for those
\* symbols, and every internal node has the summed frequency of the two
\* nodes that come first among those remaining (by frequency, then by
\* depth) and the depth 1 + max of the depths of its sons.
C37_OptimalLengths ==
    (t_out.built /\ ~t_out.overflowed /\ Cardinality(UsedSyms) >= 2) =>
        /\ {n \in DOMAIN t_out.len : t_out.len[n] # 0} = UsedSyms
        /\ LET used == UsedSyms
               freq == [n \in used |-> t_freq[n - SymAt(t_desc, 0) + 1]]
               cost == CostOver(used, freq, t_out.len)
           IN  /\ cost = MergeCost(NonZero(t_freq))
               /\ Cardinality(used) <= MaxEnumerated =>
                      \A len \in PrefixLengths(used) :
                          cost <= CostOver(used, freq, len)
        /\ Len(t_out.joins) = Cardinality(UsedSyms) - 1
        /\ \A i \in 1..Len(t_out.joins) :
               LET j == t_out.joins[i]
               IN  /\ j.least
                   /\ t_out.node_fc[i] = j.fn + j.fm
                   /\ t_out.node_depth[i] =
                          1 + (IF j.dn >= j.dm THEN j.dn ELSE j.dm)

\* A tree within max_length where a leaf and an internal node of the same
\* frequency were in the heap together, the lengths not all equal.
C37_Witness ==
    /\ t_out.built
    /\ ~t_out.overflowed
    /\ Cardinality(UsedSyms) >= 4
    /\ \E i, k \in 1..Len(t_out.joins) :
          /\ i < k
          /\ t_out.joins[k].fn = t_out.joins[k].fm
          /\ t_out.joins[k].dn # t_out.joins[k].dm
    /\ \E a, b \in UsedSyms : t_out.len[a] # t_out.len[b]


(***************************************************************************)
(* C31: read() of a response with Content-Length.                          *)
(***************************************************************************)
\* The response has Content-Length: N and at least N bytes follow its header.
HasLength == stream.framing = "length" /\ stream.err = "ok"

\* What is left of read(): the bytes the stream still holds, and within them
\* the steps up to the next read_some.
Left ==
    5 * Len(Unread)
    + (IF pc = "header" THEN 4
       ELSE IF pc = "read_header" \/ (pc = "body" /\ ~complete) THEN 3
       ELSE IF pc = "read_body" \/ pc = "read_chunk" THEN 2
       ELSE IF pc = "body" THEN 1
       ELSE 0)

C32_ChunkedRead ==
    (pc = "done" /\ stream.framing = "chunked" /\ stream.err = "ok") =>
        /\ ec = "ok"
        /\ body_ = [str |-> stream.body, size |-> Len(stream.body)]


(***************************************************************************)
(* C38: write_eof.                                                         *)
(***************************************************************************)
\* The message has Content-Length or chunked framing.
Framed == f_ \cap {"ContentLength", "Chunked"} # {}

\* read_some has reported the end of the stream and read() calls write_eof.
AtEof == pc = "read_body" /\ remain >= 0 /\ Unread = <<>>

\* C38: write_eof on a parser with Content-Length or chunked framing that is
\* not complete sets short_read and leaves the parser as it is; on a parser
\* with neither framing it completes the message without error; a parser
\* that is complete stays complete, also under a further write_eof.
C38_WriteEof ==
    [][AtEof =>
         /\ (Framed /\ ~complete) =>
                /\ ec' = "short_read"
                /\ f_' = f_ /\ length_' = length_ /\ skip_' = skip_
                /\ ~complete'
         /\ ~Framed => (ec' = "ok" /\ complete')
         /\ complete => (ec' = "ok" /\ complete')
         /\ complete' => "Complete" \in write_eof(f_').f]_vars

\* write_eof has refused the end of the stream inside a body with
\* Content-Length.
C38_Witness ==
    /\ pc = "done"
    /\ ec = "short_read"
    /\ "ContentLength" \in f_
    /\ ~complete
    /\ len_ < length_ + len_
    /\ Unread = <<>>


(***************************************************************************)
(* C39: Content-Length and chunked exclude each other.                     *)
(***************************************************************************)
\* C39: at most one of the flags of Content-Length and chunked is set in
\* every state; a header with both fields, or with one of them twice, fails
\* at the second of these fields with bad_content_length or
\* bad_transfer_encoding, the flag of the first set, and the failed parse
\* neither sets the flag of the header nor consumes from the buffer.
C39_OneFraming ==
    /\ ~({"ContentLength", "Chunked"} \subseteq f_)
    /\ (pc = "done" /\ stream.framing = "conflict") =>
          /\ ec = stream.err
          /\ Cardinality(f_ \cap {"ContentLength", "Chunked"}) = 1
          /\ "Header" \notin f_
          /\ buffer = SubSeq(stream.s, 1, stream.pos)
          /\ Len(buffer) >= stream.head

\* A Transfer-Encoding after a Content-Length has been refused.
C39_Witness ==
    /\ pc = "done"
    /\ stream.framing = "conflict"
    /\ ec = "bad_transfer_encoding"
    /\ "ContentLength" \in f_
    /\ length_ = 1


(***************************************************************************)
(* C40: the offset at which the search for the delimiter resumes.          *)
(***************************************************************************)
\* C40: at every call of write(), skip_ is at most buffer.size() and has
\* not wrapped around.
C40_SkipWithinBuffer ==
    pc \in {"header", "body"} => skip_ \in 0..Len(buffer)

=============================================================================
